---------------------------- MODULE Spec2Model ----------------------------
(***************************************************************************)
(* Model of the message forwarding pipeline of forward.py: the per-account *)
(* Telethon connections and their NewMessage listeners, the in-memory task *)
(* registry, the content filter, the bounded asyncio send queue, the send  *)
(* workers with FloodWait re-enqueue, the destination resolver and its     *)
(* cache, and the login / logout / restore lifecycle that creates and      *)
(* tears down the per-account state.                                       *)
(*                                                                         *)
(* Everything runs on one asyncio event loop: a coroutine runs without     *)
(* interruption from one suspension point (an await that really waits) to  *)
(* the next, so each action below is one such run.                         *)
(***************************************************************************)
EXTENDS Integers, Sequences, FiniteSets, TLC

(***************************************************************************)
(* Program constants (environment-configurable in the source; small values *)
(* are used here).                                                         *)
(***************************************************************************)
SEND_WORKER_COUNT == 2
SEND_QUEUE_MAXSIZE == 1
MAX_CONCURRENT_USERS == 2
RESOLVE_ATTEMPTS == 3

(***************************************************************************)
(* Bounds of the model.                                                    *)
(***************************************************************************)
MaxClients == 3        \* clients ever signed in (restored or logged in)
MaxEvents == 3         \* NewMessage events delivered in PipelineSpec
BootEvents == 2        \* NewMessage events delivered in Spec
MaxInflight == 1       \* listener invocations suspended at the same time
MaxResolvers == 1      \* background resolver tasks alive at the same time
ListenerEvents == 2    \* NewMessage events delivered in ListenerSpec
ListenerQueueMaxsize == 4  \* maxsize of the queue in ListenerSpec
MaxStartCalls == 2         \* calls of start_send_workers beside the one of post_init

Users == {1, 2, 3}
ActiveUsers == {1}    \* the users that talk to the bot or have a stored session
SourceChat == 100
TargetChats == {200, 300}
Handles == {1}         \* opaque input entities a resolution can return
NoClient == 0
NoEntity == 0
NoChat == 0

(***************************************************************************)
(* Text is a sequence of characters.                                       *)
(***************************************************************************)
Digits == {"0", "1", "2", "3", "4", "5", "6", "7", "8", "9"}
Letters == {"a", "b", "c", "d", "e", "f", "g", "h", "i", "j", "k", "l", "m",
            "n", "o", "p", "q", "r", "s", "t", "u", "v", "w", "x", "y", "z"}
Whitespace == {" "}

isdigit(ch) == ch \in Digits
isalpha(ch) == ch \in Letters
isspace(ch) == ch \in Whitespace

any_digit(s) == \E i \in 1..Len(s) : isdigit(s[i])
\* a letter at the very start of s
any_alpha_head(s) == s # <<>> /\ isalpha(s[1])

any_alpha(s) == \E i \in 1..Len(s) : isalpha(s[i])

\* str.isdigit(): non-empty and every character a digit
str_isdigit(s) == Len(s) > 0 /\ \A i \in 1..Len(s) : isdigit(s[i])

\* str.strip(): leading and trailing whitespace removed
RECURSIVE lstrip(_)
lstrip(s) == IF s # <<>> /\ isspace(Head(s)) THEN lstrip(Tail(s)) ELSE s

RECURSIVE rstrip(_)
rstrip(s) ==
    IF s # <<>> /\ isspace(s[Len(s)]) THEN rstrip(SubSeq(s, 1, Len(s) - 1)) ELSE s

\* no trimming at all
strip_nothing(s) == s

strip(s) == rstrip(lstrip(s))

\* str.split(): the maximal runs of non-whitespace characters, in order
RECURSIVE split_from(_, _, _)
split_from(s, cur, acc) ==
    IF s = <<>>
    THEN IF cur = <<>> THEN acc ELSE Append(acc, cur)
    ELSE IF isspace(Head(s))
         THEN split_from(Tail(s), <<>>, IF cur = <<>> THEN acc ELSE Append(acc, cur))
         ELSE split_from(Tail(s), Append(cur, Head(s)), acc)

\* the whole text as one word
split_whole(s) == IF s = <<>> THEN <<>> ELSE <<s>>

split(s) == split_from(s, <<>>, <<>>)

\* the words of ws that hold a character of the wanted kind, whatever else
\* they hold, each decorated, in order
RECURSIVE decorated_words_any(_, _, _, _)
decorated_words_any(ws, alphaWords, prefix, suffix) ==
    IF ws = <<>> THEN <<>>
    ELSE LET w == Head(ws)
             keep == IF alphaWords THEN any_alpha(w) ELSE any_digit(w)
             rest == decorated_words_any(Tail(ws), alphaWords, prefix, suffix)
         IN  IF keep THEN <<prefix \o w \o suffix>> \o rest ELSE rest

\* the words of ws that satisfy keep, each decorated, in order
RECURSIVE decorated_words(_, _, _, _)
decorated_words(ws, alphaWords, prefix, suffix) ==
    IF ws = <<>> THEN <<>>
    ELSE LET w == Head(ws)
             keep == IF alphaWords THEN any_alpha(w) /\ ~any_digit(w)
                                   ELSE any_digit(w) /\ ~any_alpha(w)
             rest == decorated_words(Tail(ws), alphaWords, prefix, suffix)
         IN  IF keep THEN <<prefix \o w \o suffix>> \o rest ELSE rest

\* Python's None where a string is expected: a value that is no text (a text
\* is a sequence of one-character strings)
None == <<"None">>

\* `x or ""` taken literally, None is kept
or_literal(x) == x

\* `x or ""`: None and the empty string both give the empty string
or_empty(x) == IF x = None THEN <<>> ELSE x

TASK_SETTINGS_DEFAULT ==
    [filter_raw |-> FALSE, filter_numbers |-> FALSE, filter_alpha |-> FALSE,
     filter_remove_alpha |-> FALSE, filter_remove_numeric |-> FALSE,
     filter_prefix |-> None, filter_suffix |-> None,
     outgoing |-> TRUE, forward_tag |-> TRUE, control |-> TRUE]

\* apply_filters_to_text with the numbers-only test placed before the raw one
apply_filters_numbers_first(message_text, settings) ==
    LET text == or_empty(message_text)
        words == split(text)
        has_alpha == \E i \in 1..Len(words) : any_alpha(words[i])
        has_digit == \E i \in 1..Len(words) : any_digit(words[i])
        prefix == or_empty(settings.filter_prefix)
        suffix == or_empty(settings.filter_suffix)
        active_filters == settings.filter_raw \/ settings.filter_numbers
                          \/ settings.filter_alpha \/ settings.filter_remove_alpha
                          \/ settings.filter_remove_numeric
    IN  IF settings.filter_numbers
        THEN (IF any_digit(text) THEN <<prefix \o text \o suffix>> ELSE <<>>)
        ELSE IF settings.filter_raw THEN <<prefix \o text \o suffix>>
        ELSE IF settings.filter_alpha
        THEN (IF any_alpha(text) THEN <<prefix \o text \o suffix>> ELSE <<>>)
        ELSE IF settings.filter_remove_alpha
        THEN (IF has_alpha /\ has_digit
              THEN decorated_words(words, TRUE, prefix, suffix) ELSE <<>>)
        ELSE IF settings.filter_remove_numeric
        THEN (IF has_alpha /\ has_digit
              THEN decorated_words(words, FALSE, prefix, suffix) ELSE <<>>)
        ELSE IF ~active_filters
        THEN (IF str_isdigit(strip(text))
              THEN <<prefix \o strip(text) \o suffix>> ELSE <<>>)
        ELSE <<>>

(***************************************************************************)
(* apply_filters_to_text: the list of strings to forward for one message.  *)
(* The source reads the text as `message_text or ""` and the prefix and    *)
(* suffix as `settings.get(..) or ""`.                                     *)
(***************************************************************************)
apply_filters_to_text(message_text, settings) ==
    LET text == or_empty(message_text)
        words == split(text)
        has_alpha == \E i \in 1..Len(words) : any_alpha(words[i])
        has_digit == \E i \in 1..Len(words) : any_digit(words[i])
        prefix == or_empty(settings.filter_prefix)
        suffix == or_empty(settings.filter_suffix)
        active_filters == settings.filter_raw \/ settings.filter_numbers
                          \/ settings.filter_alpha \/ settings.filter_remove_alpha
                          \/ settings.filter_remove_numeric
    IN  IF settings.filter_raw THEN <<prefix \o text \o suffix>>
        ELSE IF settings.filter_numbers
        THEN (IF any_digit(text) THEN <<prefix \o text \o suffix>> ELSE <<>>)
        ELSE IF settings.filter_alpha
        THEN (IF any_alpha(text) THEN <<prefix \o text \o suffix>> ELSE <<>>)
        ELSE IF settings.filter_remove_alpha
        THEN (IF has_alpha /\ has_digit
              THEN decorated_words(words, TRUE, prefix, suffix) ELSE <<>>)
        ELSE IF settings.filter_remove_numeric
        THEN (IF has_alpha /\ has_digit
              THEN decorated_words(words, FALSE, prefix, suffix) ELSE <<>>)
        ELSE IF ~active_filters
        THEN (IF str_isdigit(strip(text))
              THEN <<prefix \o strip(text) \o suffix>> ELSE <<>>)
        ELSE <<>>


(***************************************************************************)
(* State.                                                                  *)
(***************************************************************************)
VARIABLES
    phase,                \* "boot": post_init not yet run; "restore"; "polling"
    send_queue_set,       \* send_queue is not None
    send_queue,           \* the items of the asyncio.Queue, oldest first
    send_workers_started, \* _send_workers_started
    worker_tasks,         \* the spawned send_worker_loop tasks, in spawn order
    clients,              \* every TelegramClient that was signed in, in order
    user_clients,         \* user -> index of its client, NoClient when absent
    login_states,         \* user -> a login dialog is open (its client is connected)
    handler_registered,   \* user -> client whose closure is stored, or NoClient
    tasks_cache,          \* user -> [has, list]
    target_entity_cache,  \* user -> [has, map]
    db_logged_in,         \* the users table: is_logged_in with a session stored
    db_tasks,             \* the forwarding tasks table, per user
    restore_pending,      \* sessions restore_sessions has still to restore
    listeners,            \* listener invocations suspended in send_queue.put
    resolvers,            \* background resolve_targets_for_user tasks
    events_left,          \* NewMessage events the model still delivers
    dropped,              \* "queue full, dropping" warnings logged so far
    send_queue_maxsize,   \* maxsize of the queue object send_queue
    event,                \* ListenerSpec, BootSpec: the NewMessage event delivered last
    filter_call,          \* FilterSpec: one call of apply_filters_to_text
    send_result,          \* ResolverSpec: how the send_message call made last ended
    start_calls           \* how many times start_send_workers has been called

vars == <<phase, send_queue_set, send_queue, send_workers_started, worker_tasks,
          clients, user_clients, login_states, handler_registered, tasks_cache, target_entity_cache, db_logged_in,
          db_tasks, restore_pending, listeners, resolvers, events_left, dropped,
          send_queue_maxsize, event, filter_call, send_result, start_calls>>

\* the values of event and filter_call in the specifications that do not use them
NoEvent == [client |-> NoClient, text |-> <<>>, chat_id |-> NoChat, out |-> FALSE]
NoCall == [message_text |-> <<>>, settings |-> TASK_SETTINGS_DEFAULT,
           results |-> <<>>, returned |-> FALSE]
NoResult == "none"

Job(u, c, t, x) == [user_id |-> u, client |-> c, target_id |-> t, text |-> x]
NoJob == Job(0, NoClient, NoChat, <<>>)

Task(label, sources, targets, settings) ==
    [label |-> label, source_ids |-> sources, target_ids |-> targets,
     settings |-> settings]

NoTasks == [has |-> FALSE, list |-> <<>>]
EmptyMap == [t \in TargetChats |-> NoEntity]
NoCache == [has |-> FALSE, map |-> EmptyMap]

\* dict.setdefault(user_id, []) and dict.setdefault(user_id, {})
setdefault_tasks(tc, u) == IF tc[u].has THEN tc ELSE [tc EXCEPT ![u] = [has |-> TRUE, list |-> <<>>]]
setdefault_cache(ec, u) == IF ec[u].has THEN ec ELSE [ec EXCEPT ![u] = [has |-> TRUE, map |-> EmptyMap]]

\* asyncio.Queue.full() of a queue made without maxsize: it is never full
queue_full_unbounded(q) == FALSE

\* asyncio.Queue.full() of the queue object, made with maxsize=send_queue_maxsize
queue_full(q) == Len(q) >= send_queue_maxsize

\* the event loop of run_polling is running: the coroutines scheduled on it run
LoopRunning == phase \in {"boot", "restore", "polling"}

Workers == DOMAIN worker_tasks
ClientIds == DOMAIN clients
LoggedIn == {u \in Users : user_clients[u] # NoClient}

Range(f) == {f[i] : i \in DOMAIN f}
RemoveAt(s, i) == SubSeq(s, 1, i - 1) \o SubSeq(s, i + 1, Len(s))

(***************************************************************************)
(* The listener (_hot_message_handler).  One invocation is the record      *)
(*   user_id, client : the closure's variables                             *)
(*   text, chat_id, out : the event                                        *)
(*   live, tasks : user_tasks, the list object read from tasks_cache: the  *)
(*       list tasks_cache still holds (live) or, once tasks_cache[user_id] *)
(*       has been popped or rebound, the list as it then was (tasks)       *)
(*   ti, targets, gi, outputs, oi : the position of the three loops; gi=0  *)
(*       stands for the head of the task loop at task ti                   *)
(***************************************************************************)
\* a listener that looks at the first task of the list only
user_tasks_first(inv) ==
    SubSeq(IF inv.live THEN tasks_cache[inv.user_id].list ELSE inv.tasks, 1, 1)

user_tasks_of(inv) == IF inv.live THEN tasks_cache[inv.user_id].list ELSE inv.tasks

\* a pass that does not look at the control switch
RECURSIVE run_pass_ignoring_control(_, _, _)
run_pass_ignoring_control(inv, q, made) ==
    LET L == user_tasks_of(inv) IN
    IF inv.ti > Len(L) THEN [inv |-> inv, queue |-> q, done |-> TRUE]
    ELSE IF inv.gi = 0
    THEN LET task == L[inv.ti]
             settings == task.settings
             skip == \/ inv.chat_id \notin Range(task.source_ids)
                     \/ (~settings.outgoing /\ inv.out)
         IN  IF skip
             THEN run_pass_ignoring_control([inv EXCEPT !.ti = @ + 1], q, made)
             ELSE run_pass_ignoring_control([inv EXCEPT !.targets = task.target_ids,
                                       !.outputs = apply_filters_to_text(inv.text, settings),
                                       !.gi = 1, !.oi = 1], q, made)
    ELSE IF inv.gi > Len(inv.targets)
    THEN run_pass_ignoring_control([inv EXCEPT !.ti = @ + 1, !.targets = <<>>, !.outputs = <<>>,
                              !.gi = 0, !.oi = 0], q, made)
    ELSE IF inv.oi > Len(inv.outputs)
    THEN run_pass_ignoring_control([inv EXCEPT !.gi = @ + 1, !.oi = 1], q, made)
    ELSE IF ~made
    THEN run_pass_ignoring_control([inv EXCEPT !.oi = @ + 1], q, made)
    ELSE IF queue_full(q)
    THEN [inv |-> inv, queue |-> q, done |-> FALSE]
    ELSE run_pass_ignoring_control([inv EXCEPT !.oi = @ + 1],
                  Append(q, Job(inv.user_id, inv.client, inv.targets[inv.gi],
                                inv.outputs[inv.oi])), made)

\* a pass that does not look at the outgoing switch
RECURSIVE run_pass_ignoring_outgoing(_, _, _)
run_pass_ignoring_outgoing(inv, q, made) ==
    LET L == user_tasks_of(inv) IN
    IF inv.ti > Len(L) THEN [inv |-> inv, queue |-> q, done |-> TRUE]
    ELSE IF inv.gi = 0
    THEN LET task == L[inv.ti]
             settings == task.settings
             skip == \/ inv.chat_id \notin Range(task.source_ids)
                     \/ settings.control = FALSE
         IN  IF skip
             THEN run_pass_ignoring_outgoing([inv EXCEPT !.ti = @ + 1], q, made)
             ELSE run_pass_ignoring_outgoing([inv EXCEPT !.targets = task.target_ids,
                                       !.outputs = apply_filters_to_text(inv.text, settings),
                                       !.gi = 1, !.oi = 1], q, made)
    ELSE IF inv.gi > Len(inv.targets)
    THEN run_pass_ignoring_outgoing([inv EXCEPT !.ti = @ + 1, !.targets = <<>>, !.outputs = <<>>,
                              !.gi = 0, !.oi = 0], q, made)
    ELSE IF inv.oi > Len(inv.outputs)
    THEN run_pass_ignoring_outgoing([inv EXCEPT !.gi = @ + 1, !.oi = 1], q, made)
    ELSE IF ~made
    THEN run_pass_ignoring_outgoing([inv EXCEPT !.oi = @ + 1], q, made)
    ELSE IF queue_full(q)
    THEN [inv |-> inv, queue |-> q, done |-> FALSE]
    ELSE run_pass_ignoring_outgoing([inv EXCEPT !.oi = @ + 1],
                  Append(q, Job(inv.user_id, inv.client, inv.targets[inv.gi],
                                inv.outputs[inv.oi])), made)

\* the invocation runs until it is suspended in put (done = FALSE) or returns
RECURSIVE run_pass(_, _, _)
run_pass(inv, q, made) ==
    LET L == user_tasks_of(inv) IN
    IF inv.ti > Len(L) THEN [inv |-> inv, queue |-> q, done |-> TRUE]
    ELSE IF inv.gi = 0
    THEN LET task == L[inv.ti]
             settings == task.settings
             skip == \/ inv.chat_id \notin Range(task.source_ids)
                     \/ settings.control = FALSE
                     \/ (~settings.outgoing /\ inv.out)
         IN  IF skip
             THEN run_pass([inv EXCEPT !.ti = @ + 1], q, made)
             ELSE run_pass([inv EXCEPT !.targets = task.target_ids,
                                       !.outputs = apply_filters_to_text(inv.text, settings),
                                       !.gi = 1, !.oi = 1], q, made)
    ELSE IF inv.gi > Len(inv.targets)
    THEN run_pass([inv EXCEPT !.ti = @ + 1, !.targets = <<>>, !.outputs = <<>>,
                              !.gi = 0, !.oi = 0], q, made)
    ELSE IF inv.oi > Len(inv.outputs)
    THEN run_pass([inv EXCEPT !.gi = @ + 1, !.oi = 1], q, made)
    ELSE IF ~made
    THEN run_pass([inv EXCEPT !.oi = @ + 1], q, made)
    ELSE IF queue_full(q)
    THEN [inv |-> inv, queue |-> q, done |-> FALSE]
    ELSE run_pass([inv EXCEPT !.oi = @ + 1],
                  Append(q, Job(inv.user_id, inv.client, inv.targets[inv.gi],
                                inv.outputs[inv.oi])), made)

EventTexts == {<<>>, <<"9">>, <<"h", "i">>}
EventChats == {NoChat, SourceChat}

\* a handler that does not return on an event without text
hot_message_handler_keeping_empty(c, text, chat, out) ==
    /\ LoopRunning
    /\ c \in ClientIds
    /\ clients[c].connected /\ clients[c].handler
    /\ events_left > 0
    /\ events_left' = events_left - 1
    /\ LET u == clients[c].owner
           inv0 == [user_id |-> u, client |-> c, text |-> text, chat_id |-> chat,
                    out |-> out, live |-> TRUE, tasks |-> <<>>, ti |-> 1,
                    targets |-> <<>>, gi |-> 0, outputs |-> <<>>, oi |-> 0]
       IN  IF chat = NoChat \/ ~tasks_cache[u].has
              \/ tasks_cache[u].list = <<>>
           THEN UNCHANGED <<send_queue, listeners>>
           ELSE LET r == run_pass(inv0, send_queue, send_queue_set) IN
                /\ r.done \/ Len(listeners) < MaxInflight
                /\ send_queue' = r.queue
                /\ listeners' = IF r.done THEN listeners ELSE Append(listeners, r.inv)
    /\ UNCHANGED <<phase, send_queue_set, send_workers_started, worker_tasks, clients,
                   user_clients, login_states, handler_registered, tasks_cache, target_entity_cache, db_logged_in,
                   db_tasks, restore_pending, resolvers, dropped,
                   send_queue_maxsize, filter_call, send_result, start_calls>>

\* a NewMessage event reaches client c, whose handler is attached (the variable
\* event, which no code reads, is set by the specification that records it)
hot_message_handler(c, text, chat, out) ==
    /\ LoopRunning
    /\ c \in ClientIds
    /\ clients[c].connected /\ clients[c].handler
    /\ events_left > 0
    /\ events_left' = events_left - 1
    /\ LET u == clients[c].owner
           inv0 == [user_id |-> u, client |-> c, text |-> text, chat_id |-> chat,
                    out |-> out, live |-> TRUE, tasks |-> <<>>, ti |-> 1,
                    targets |-> <<>>, gi |-> 0, outputs |-> <<>>, oi |-> 0]
       IN  IF text = <<>> \/ chat = NoChat \/ ~tasks_cache[u].has
              \/ tasks_cache[u].list = <<>>
           THEN UNCHANGED <<send_queue, listeners>>
           ELSE LET r == run_pass(inv0, send_queue, send_queue_set) IN
                /\ r.done \/ Len(listeners) < MaxInflight
                /\ send_queue' = r.queue
                /\ listeners' = IF r.done THEN listeners ELSE Append(listeners, r.inv)
    /\ UNCHANGED <<phase, send_queue_set, send_workers_started, worker_tasks, clients,
                   user_clients, login_states, handler_registered, tasks_cache, target_entity_cache, db_logged_in,
                   db_tasks, restore_pending, resolvers, dropped,
                   send_queue_maxsize, filter_call, send_result, start_calls>>

\* a suspended put of invocation i is woken: the queue has room again
listener_resume(i) ==
    /\ LoopRunning
    /\ i \in DOMAIN listeners
    /\ ~queue_full(send_queue)
    /\ LET r == run_pass(listeners[i], send_queue, send_queue_set) IN
       /\ send_queue' = r.queue
       /\ listeners' = IF r.done THEN RemoveAt(listeners, i)
                       ELSE [listeners EXCEPT ![i] = r.inv]
    /\ UNCHANGED <<phase, send_queue_set, send_workers_started, worker_tasks, clients,
                   user_clients, login_states, handler_registered, tasks_cache, target_entity_cache, db_logged_in,
                   db_tasks, restore_pending, resolvers, events_left, dropped,
                   send_queue_maxsize, event, filter_call, send_result, start_calls>>

\* tasks_cache[u] is popped or rebound: the invocations iterating the old list keep it
detach(ls, u, old) ==
    [i \in DOMAIN ls |->
        IF ls[i].user_id = u /\ ls[i].live
        THEN [ls[i] EXCEPT !.live = FALSE, !.tasks = old] ELSE ls[i]]

(***************************************************************************)
(* The send workers (send_worker_loop).  pc is the await the worker is     *)
(* suspended at: "get" send_queue.get(), "resolve" get_input_entity,       *)
(* "send" send_message, "sleep" the FloodWait sleep, "put" send_queue.put; *)
(* "done" is a worker whose loop has ended.                                *)
(***************************************************************************)
Worker(pc, job, entity) == [pc |-> pc, job |-> job, entity |-> entity]
IdleWorker == Worker("get", NoJob, NoEntity)

worker_vars_unchanged ==
    UNCHANGED <<phase, send_queue_set, send_workers_started, clients, user_clients,
                login_states, handler_registered,
                tasks_cache, db_logged_in, db_tasks, restore_pending, listeners,
                resolvers, events_left, dropped,
                   send_queue_maxsize, event, filter_call, send_result, start_calls>>

\* a get() that returns the head of the queue and leaves it there
worker_get_peek(w) ==
    /\ LoopRunning
    /\ w \in Workers
    /\ worker_tasks[w].pc = "get"
    /\ send_queue # <<>>
    /\ LET job == Head(send_queue)
           cache == target_entity_cache[job.user_id]
           entity == IF cache.has THEN cache.map[job.target_id] ELSE NoEntity
       IN  /\ UNCHANGED send_queue
           /\ IF entity # NoEntity
              THEN /\ worker_tasks' = [worker_tasks EXCEPT ![w] = Worker("send", job, entity)]
                   /\ UNCHANGED target_entity_cache
              ELSE /\ worker_tasks' = [worker_tasks EXCEPT ![w] = Worker("resolve", job, NoEntity)]
                   /\ target_entity_cache' = setdefault_cache(target_entity_cache, job.user_id)
    /\ worker_vars_unchanged

\* get() returns a job; the cache is looked up and, on a miss,
\* resolve_target_entity_once runs up to its await
worker_get(w) ==
    /\ LoopRunning
    /\ w \in Workers
    /\ worker_tasks[w].pc = "get"
    /\ send_queue # <<>>
    /\ LET job == Head(send_queue)
           cache == target_entity_cache[job.user_id]
           entity == IF cache.has THEN cache.map[job.target_id] ELSE NoEntity
       IN  /\ send_queue' = Tail(send_queue)
           /\ IF entity # NoEntity
              THEN /\ worker_tasks' = [worker_tasks EXCEPT ![w] = Worker("send", job, entity)]
                   /\ UNCHANGED target_entity_cache
              ELSE /\ worker_tasks' = [worker_tasks EXCEPT ![w] = Worker("resolve", job, NoEntity)]
                   /\ target_entity_cache' = setdefault_cache(target_entity_cache, job.user_id)
    /\ worker_vars_unchanged

\* send_queue.get() raises an exception other than CancelledError: the worker
\* logs it and breaks out of its loop
worker_get_failed(w) ==
    /\ LoopRunning
    /\ w \in Workers
    /\ worker_tasks[w].pc = "get"
    /\ worker_tasks' = [worker_tasks EXCEPT ![w] = Worker("done", NoJob, NoEntity)]
    /\ UNCHANGED <<send_queue, target_entity_cache>>
    /\ worker_vars_unchanged

\* a resolution that caches an entry for the target also when the call raised
worker_resolved_caching_failure(w, h) ==
    /\ LoopRunning
    /\ w \in Workers
    /\ worker_tasks[w].pc = "resolve"
    /\ LET job == worker_tasks[w].job
           cache == target_entity_cache[job.user_id]
       IN  IF cache.has
           THEN /\ target_entity_cache' =
                       [target_entity_cache EXCEPT ![job.user_id].map[job.target_id] =
                           IF h # NoEntity THEN h ELSE 1]
                /\ worker_tasks' = [worker_tasks EXCEPT ![w] =
                                       IF h # NoEntity THEN Worker("send", job, h)
                                       ELSE IdleWorker]
           ELSE /\ worker_tasks' = [worker_tasks EXCEPT ![w] = IdleWorker]
                /\ UNCHANGED target_entity_cache
    /\ UNCHANGED send_queue
    /\ worker_vars_unchanged

\* a resolution that puts the job back on the queue when the call raised
worker_resolved_requeueing(w, h) ==
    /\ LoopRunning
    /\ w \in Workers
    /\ worker_tasks[w].pc = "resolve"
    /\ LET job == worker_tasks[w].job
           cache == target_entity_cache[job.user_id]
       IN  IF h # NoEntity /\ cache.has
           THEN /\ target_entity_cache' =
                       [target_entity_cache EXCEPT ![job.user_id].map[job.target_id] = h]
                /\ worker_tasks' = [worker_tasks EXCEPT ![w] = Worker("send", job, h)]
                /\ UNCHANGED send_queue
           ELSE /\ worker_tasks' = [worker_tasks EXCEPT ![w] = IdleWorker]
                /\ send_queue' = IF queue_full(send_queue) THEN send_queue
                                  ELSE Append(send_queue, job)
                /\ UNCHANGED target_entity_cache
    /\ worker_vars_unchanged

\* get_input_entity returns handle h, or raises (h = NoEntity)
worker_resolved(w, h) ==
    /\ LoopRunning
    /\ w \in Workers
    /\ worker_tasks[w].pc = "resolve"
    /\ LET job == worker_tasks[w].job
           cache == target_entity_cache[job.user_id]
       IN  IF h # NoEntity /\ cache.has
           THEN /\ target_entity_cache' =
                       [target_entity_cache EXCEPT ![job.user_id].map[job.target_id] = h]
                /\ worker_tasks' = [worker_tasks EXCEPT ![w] = Worker("send", job, h)]
           ELSE \* the call raised, or the store raised KeyError: the job is skipped
                /\ worker_tasks' = [worker_tasks EXCEPT ![w] = IdleWorker]
                /\ UNCHANGED target_entity_cache
    /\ UNCHANGED send_queue
    /\ worker_vars_unchanged

SendResults == {"ok", "flood", "error"}

\* a send whose every failure is taken for a rate limit
worker_sent_retrying(w, result) ==
    /\ LoopRunning
    /\ w \in Workers
    /\ worker_tasks[w].pc = "send"
    /\ result \in {"ok", "flood"} => clients[worker_tasks[w].job.client].connected
    /\ worker_tasks' = [worker_tasks EXCEPT ![w] =
                           IF result \in {"flood", "error"} THEN [@ EXCEPT !.pc = "sleep"]
                           ELSE IdleWorker]
    /\ UNCHANGED <<send_queue, target_entity_cache>>
    /\ UNCHANGED <<phase, send_queue_set, send_workers_started, clients, user_clients,
                   login_states, handler_registered, tasks_cache, db_logged_in, db_tasks,
                   restore_pending, listeners, resolvers, events_left, dropped,
                   send_queue_maxsize, event, filter_call, start_calls>>

\* send_message returns, raises FloodWaitError, or raises something else
worker_sent(w, result) ==
    /\ LoopRunning
    /\ w \in Workers
    /\ worker_tasks[w].pc = "send"
    /\ result \in {"ok", "flood"} => clients[worker_tasks[w].job.client].connected
    /\ worker_tasks' = [worker_tasks EXCEPT ![w] =
                           IF result = "flood" THEN [@ EXCEPT !.pc = "sleep"]
                           ELSE IdleWorker]
    /\ UNCHANGED <<send_queue, target_entity_cache>>
    /\ UNCHANGED <<phase, send_queue_set, send_workers_started, clients, user_clients,
                   login_states, handler_registered, tasks_cache, db_logged_in, db_tasks,
                   restore_pending, listeners, resolvers, events_left, dropped,
                   send_queue_maxsize, event, filter_call, start_calls>>

\* await send_queue.put(job) after the FloodWait sleep: the job is appended when
\* the queue has room, and the worker is suspended in put while it is full
worker_requeue(w) ==
    /\ LoopRunning
    /\ w \in Workers
    /\ worker_tasks[w].pc \in {"sleep", "put"}
    /\ IF queue_full(send_queue)
       THEN /\ worker_tasks[w].pc = "sleep"
            /\ worker_tasks' = [worker_tasks EXCEPT ![w].pc = "put"]
            /\ UNCHANGED send_queue
       ELSE /\ send_queue' = Append(send_queue, worker_tasks[w].job)
            /\ worker_tasks' = [worker_tasks EXCEPT ![w] = IdleWorker]
    /\ UNCHANGED target_entity_cache
    /\ worker_vars_unchanged

(***************************************************************************)
(* The background resolver (resolve_targets_for_user), one task per call   *)
(* of asyncio.create_task.  pc: "start" scheduled and not yet run,         *)
(* "resolve" suspended in get_input_entity, "sleep" suspended in the retry *)
(* delay.  idx is the target being resolved and attempt the number of      *)
(* failed attempts made for it.                                            *)
(***************************************************************************)
Resolver(u, targets) ==
    [user_id |-> u, client |-> NoClient, targets |-> targets, idx |-> 1,
     attempt |-> 0, pc |-> "start"]

\* from the call of resolve_target_entity_once for targets[idx] to the next await
RECURSIVE resolver_call(_, _)
resolver_call(r, ec) ==
    IF r.idx > Len(r.targets) THEN [r |-> r, cache |-> ec, done |-> TRUE]
    ELSE LET ec1 == setdefault_cache(ec, r.user_id) IN
         IF ec1[r.user_id].map[r.targets[r.idx]] # NoEntity
         THEN resolver_call([r EXCEPT !.idx = @ + 1, !.attempt = 0], ec1)
         ELSE [r |-> [r EXCEPT !.pc = "resolve"], cache |-> ec1, done |-> FALSE]

resolver_vars_unchanged ==
    UNCHANGED <<phase, send_queue_set, send_queue, send_workers_started, worker_tasks,
                clients, user_clients, login_states, handler_registered, tasks_cache, db_logged_in, db_tasks,
                restore_pending, listeners, events_left, dropped,
                   send_queue_maxsize, event, filter_call, send_result, start_calls>>

resolver_continue(i, res) ==
    /\ target_entity_cache' = res.cache
    /\ resolvers' = IF res.done THEN RemoveAt(resolvers, i)
                    ELSE [resolvers EXCEPT ![i] = res.r]

\* the task starts to run: it reads user_clients and returns when there is none
resolver_start(i) ==
    /\ LoopRunning
    /\ i \in DOMAIN resolvers
    /\ resolvers[i].pc = "start"
    /\ LET r == resolvers[i]
           c == user_clients[r.user_id]
       IN  IF c = NoClient
           THEN /\ resolvers' = RemoveAt(resolvers, i)
                /\ UNCHANGED target_entity_cache
           ELSE resolver_continue(i, resolver_call([r EXCEPT !.client = c],
                                                   target_entity_cache))
    /\ resolver_vars_unchanged

\* get_input_entity returns handle h, or raises (h = NoEntity)
resolver_resolved(i, h) ==
    /\ LoopRunning
    /\ i \in DOMAIN resolvers
    /\ resolvers[i].pc = "resolve"
    /\ LET r == resolvers[i]
           cache == target_entity_cache[r.user_id]
       IN  IF h # NoEntity /\ cache.has
           THEN resolver_continue(i,
                    resolver_call([r EXCEPT !.idx = @ + 1, !.attempt = 0],
                        [target_entity_cache EXCEPT
                            ![r.user_id].map[r.targets[r.idx]] = h]))
           ELSE /\ resolvers' = [resolvers EXCEPT ![i].pc = "sleep"]
                /\ UNCHANGED target_entity_cache
    /\ resolver_vars_unchanged

\* a resolver that makes one attempt more per target
resolver_wake_once_more(i) ==
    /\ LoopRunning
    /\ i \in DOMAIN resolvers
    /\ resolvers[i].pc = "sleep"
    /\ LET r == resolvers[i] IN
       resolver_continue(i,
           resolver_call(IF r.attempt + 1 < RESOLVE_ATTEMPTS + 1
                         THEN [r EXCEPT !.attempt = @ + 1]
                         ELSE [r EXCEPT !.idx = @ + 1, !.attempt = 0],
                         target_entity_cache))
    /\ resolver_vars_unchanged

\* the retry delay is over: the next attempt, or the next target after the last
resolver_wake(i) ==
    /\ LoopRunning
    /\ i \in DOMAIN resolvers
    /\ resolvers[i].pc = "sleep"
    /\ LET r == resolvers[i] IN
       resolver_continue(i,
           resolver_call(IF r.attempt + 1 < RESOLVE_ATTEMPTS
                         THEN [r EXCEPT !.attempt = @ + 1]
                         ELSE [r EXCEPT !.idx = @ + 1, !.attempt = 0],
                         target_entity_cache))
    /\ resolver_vars_unchanged

(***************************************************************************)
(* Listener registration.                                                  *)
(***************************************************************************)
\* ensure_handler_registered_for_user(user_id, client): the pair
\* <<handler_registered, clients>> after the call
ensure_handler_registered_for_user(hr, cl, u, c) ==
    IF hr[u] # NoClient
    THEN <<hr, cl>>
    ELSE <<[hr EXCEPT ![u] = c], [cl EXCEPT ![c].handler = TRUE]>>

\* start_forwarding_for_user(user_id), called with user_clients = uc: the triple
\* <<handler_registered, clients, tasks_cache, target_entity_cache>> after it
start_forwarding_for_user(uc, hr, cl, tc, ec, u) ==
    IF uc[u] = NoClient
    THEN <<hr, cl, tc, ec>>
    ELSE LET reg == ensure_handler_registered_for_user(hr, cl, u, uc[u]) IN
         <<reg[1], reg[2], setdefault_tasks(tc, u), setdefault_cache(ec, u)>>

\* a client that has just signed in as u
NewClient(u) == [owner |-> u, connected |-> TRUE, handler |-> FALSE]

(***************************************************************************)
(* Start-up (post_init): the workers are started, then restore_sessions    *)
(* reloads tasks_cache from the database and restores the stored sessions. *)
(***************************************************************************)
\* a start that does not look at _send_workers_started
start_send_workers_unguarded(started, made, maxsize, wt) ==
    <<TRUE, TRUE, IF made THEN maxsize ELSE SEND_QUEUE_MAXSIZE,
      wt \o [i \in 1..SEND_WORKER_COUNT |-> IdleWorker]>>

\* start_send_workers: <<_send_workers_started, send_queue_set, send_queue_maxsize,
\* worker_tasks>> after it
start_send_workers(started, made, maxsize, wt) ==
    IF started THEN <<started, made, maxsize, wt>>
    ELSE <<TRUE, TRUE, IF made THEN maxsize ELSE SEND_QUEUE_MAXSIZE,
           wt \o [i \in 1..SEND_WORKER_COUNT |-> IdleWorker]>>

\* a start-up that restores the sessions without starting the workers
post_init_without_workers ==
    /\ phase = "boot"
    /\ UNCHANGED <<send_workers_started, send_queue_set, send_queue_maxsize, worker_tasks>>
    \* restore_sessions up to its gather
    /\ tasks_cache' = [u \in Users |->
                          IF db_tasks[u] # <<>> THEN [has |-> TRUE, list |-> db_tasks[u]]
                          ELSE NoTasks]
    /\ restore_pending' = {u \in Users : db_logged_in[u]}
    /\ phase' = "restore"
    /\ UNCHANGED start_calls
    /\ UNCHANGED <<send_queue, clients, user_clients, login_states, handler_registered, target_entity_cache,
                   db_logged_in, db_tasks, listeners, resolvers, events_left, dropped,
                   event, filter_call, send_result>>

post_init ==
    /\ phase = "boot"
    /\ LET st == start_send_workers(send_workers_started, send_queue_set,
                                    send_queue_maxsize, worker_tasks) IN
       /\ send_workers_started' = st[1]
       /\ send_queue_set' = st[2]
       /\ send_queue_maxsize' = st[3]
       /\ worker_tasks' = st[4]
    \* restore_sessions up to its gather
    /\ tasks_cache' = [u \in Users |->
                          IF db_tasks[u] # <<>> THEN [has |-> TRUE, list |-> db_tasks[u]]
                          ELSE NoTasks]
    /\ restore_pending' = {u \in Users : db_logged_in[u]}
    /\ phase' = "restore"
    /\ start_calls' = start_calls + 1
    /\ UNCHANGED <<send_queue, clients, user_clients, login_states, handler_registered, target_entity_cache,
                   db_logged_in, db_tasks, listeners, resolvers, events_left, dropped,
                   event, filter_call, send_result>>

\* one more call of start_send_workers, at any time while the loop runs
await_start_send_workers ==
    /\ LoopRunning
    /\ start_calls < MaxStartCalls
    /\ LET st == start_send_workers(send_workers_started, send_queue_set,
                                    send_queue_maxsize, worker_tasks) IN
       /\ send_workers_started' = st[1]
       /\ send_queue_set' = st[2]
       /\ send_queue_maxsize' = st[3]
       /\ worker_tasks' = st[4]
    /\ start_calls' = start_calls + 1
    /\ UNCHANGED <<phase, send_queue, clients, user_clients, login_states, handler_registered,
                   tasks_cache, target_entity_cache, db_logged_in, db_tasks, restore_pending,
                   listeners, resolvers, events_left, dropped, event, filter_call,
                   send_result>>

\* every target of every task of u, each once, in some order (list(set(all_targets)))
all_targets_orders(list) ==
    LET all == UNION {Range(list[i].target_ids) : i \in DOMAIN list} IN
    {sq \in UNION {[1..n -> all] : n \in {Cardinality(all)}} : Range(sq) = all}

RestoreOutcomes == {"ok", "failed"}

restore_single_session(u, outcome) ==
    /\ phase = "restore"
    /\ u \in restore_pending
    /\ outcome = "ok" => Len(clients) < MaxClients
    /\ restore_pending' = restore_pending \ {u}
    /\ LET c == Len(clients) + 1 IN
       IF outcome = "ok"
       THEN LET cl1 == Append(clients, NewClient(u))
                uc1 == [user_clients EXCEPT ![u] = c]
                ec1 == setdefault_cache(target_entity_cache, u)
                user_tasks == IF tasks_cache[u].has THEN tasks_cache[u].list ELSE <<>>
                fw == start_forwarding_for_user(uc1, handler_registered, cl1,
                                                tasks_cache, ec1, u)
            IN  /\ user_clients' = uc1
                /\ handler_registered' = fw[1]
                /\ clients' = fw[2]
                /\ tasks_cache' = fw[3]
                /\ target_entity_cache' = fw[4]
                /\ \E order \in all_targets_orders(user_tasks) :
                      IF order = <<>> THEN UNCHANGED resolvers
                      ELSE /\ Len(resolvers) < MaxResolvers
                           /\ resolvers' = Append(resolvers, Resolver(u, order))
                /\ UNCHANGED db_logged_in
       ELSE \* the session has expired, or connecting raised
            /\ db_logged_in' = [db_logged_in EXCEPT ![u] = FALSE]
            /\ UNCHANGED <<clients, user_clients, handler_registered, tasks_cache,
                           target_entity_cache, resolvers>>
    /\ UNCHANGED <<phase, send_queue_set, send_queue, send_workers_started, worker_tasks,
                   login_states, db_tasks, listeners, events_left, dropped,
                   send_queue_maxsize, event, filter_call, send_result, start_calls>>

\* restore_sessions returns and the bot starts polling for updates
restore_done ==
    /\ phase = "restore"
    /\ restore_pending = {}
    /\ phase' = "polling"
    /\ UNCHANGED <<send_queue_set, send_queue, send_workers_started, worker_tasks,
                   clients, user_clients, login_states, handler_registered, tasks_cache, target_entity_cache, db_logged_in,
                   db_tasks, restore_pending, listeners, resolvers, events_left, dropped,
                   send_queue_maxsize, event, filter_call, send_result, start_calls>>

(***************************************************************************)
(* The bot's update handlers.  The Application handles one update at a     *)
(* time, so the handlers do not interleave with each other; what runs      *)
(* while one of them is suspended (workers, listeners, resolvers) reads    *)
(* and writes nothing the handler reads after its await and then leaves    *)
(* in place, so each handler is one action.  A dialog that spans several   *)
(* updates (/logout and its confirmation, the steps of /forwadd) routes    *)
(* every text of the user to itself until it ends, so its last step sees   *)
(* the login state its first step checked: the action is the last step.    *)
(***************************************************************************)
BotIdle == phase = "polling"

login_command(u) ==
    /\ BotIdle
    /\ Cardinality(LoggedIn) < MAX_CONCURRENT_USERS
    /\ login_states' = [login_states EXCEPT ![u] = TRUE]
    /\ UNCHANGED <<phase, send_queue_set, send_queue, send_workers_started, worker_tasks,
                   clients, user_clients, handler_registered,
                   tasks_cache, target_entity_cache, db_logged_in, db_tasks,
                   restore_pending, listeners, resolvers, events_left, dropped,
                   send_queue_maxsize, event, filter_call, send_result, start_calls>>

\* the text that completes the sign-in (the code, or the 2FA password) arrives:
\* the sign-in succeeds (ok) or raises
handle_login_process(u, ok) ==
    /\ BotIdle
    /\ login_states[u]
    /\ ok => Len(clients) < MaxClients
    /\ LET c == Len(clients) + 1 IN
       IF ok
       THEN LET cl1 == Append(clients, NewClient(u))
                uc1 == [user_clients EXCEPT ![u] = c]
                fw == start_forwarding_for_user(uc1, handler_registered, cl1,
                          setdefault_tasks(tasks_cache, u),
                          setdefault_cache(target_entity_cache, u), u)
            IN  /\ db_logged_in' = [db_logged_in EXCEPT ![u] = TRUE]
                /\ user_clients' = uc1
                /\ handler_registered' = fw[1]
                /\ clients' = fw[2]
                /\ tasks_cache' = fw[3]
                /\ target_entity_cache' = fw[4]
       ELSE \* the dialog's client is disconnected and dropped
            UNCHANGED <<clients, db_logged_in, user_clients, handler_registered,
                        tasks_cache, target_entity_cache>>
    /\ login_states' = [login_states EXCEPT ![u] = FALSE]
    /\ UNCHANGED <<phase, send_queue_set, send_queue, send_workers_started, worker_tasks,
                   db_tasks, restore_pending, listeners, resolvers, events_left, dropped,
                   send_queue_maxsize, event, filter_call, send_result, start_calls>>

\* a logout that empties tasks_cache instead of popping the user's entry
logout_teardown_clearing_tasks(cl, hr, uc, dl, tc, ec, u) ==
    LET c == uc[u]
        h == hr[u]
        cl1 == IF c # NoClient /\ h = c THEN [cl EXCEPT ![c].handler = FALSE] ELSE cl
        hr1 == IF c # NoClient THEN [hr EXCEPT ![u] = NoClient] ELSE hr
        cl2 == IF c # NoClient THEN [cl1 EXCEPT ![c].connected = FALSE] ELSE cl1
    IN  <<cl2, hr1, [uc EXCEPT ![u] = NoClient], [dl EXCEPT ![u] = FALSE],
          [v \in Users |-> NoTasks], [ec EXCEPT ![u] = NoCache]>>

\* handle_logout_confirmation(user_id), from the match of the phone number on:
\* <<clients, handler_registered, user_clients, db_logged_in, tasks_cache,
\*   target_entity_cache>> after it.  The stored handler is removed from the
\* stored client (a no-op on a client it was never added to), that client is
\* disconnected and forgotten, the user is saved as logged out and the caches
\* are popped.
logout_teardown(cl, hr, uc, dl, tc, ec, u) ==
    LET c == uc[u]
        h == hr[u]
        cl1 == IF c # NoClient /\ h = c THEN [cl EXCEPT ![c].handler = FALSE] ELSE cl
        hr1 == IF c # NoClient THEN [hr EXCEPT ![u] = NoClient] ELSE hr
        cl2 == IF c # NoClient THEN [cl1 EXCEPT ![c].connected = FALSE] ELSE cl1
    IN  <<cl2, hr1, [uc EXCEPT ![u] = NoClient], [dl EXCEPT ![u] = FALSE],
          [tc EXCEPT ![u] = NoTasks], [ec EXCEPT ![u] = NoCache]>>

\* /logout (the user is logged in) and then the matching phone number
handle_logout_confirmation(u) ==
    /\ BotIdle
    /\ db_logged_in[u]
    /\ LET t == logout_teardown(clients, handler_registered, user_clients,
                                db_logged_in, tasks_cache, target_entity_cache, u)
       IN  /\ clients' = t[1]
           /\ handler_registered' = t[2]
           /\ user_clients' = t[3]
           /\ db_logged_in' = t[4]
           /\ tasks_cache' = t[5]
           /\ target_entity_cache' = t[6]
    /\ listeners' = detach(listeners, u, tasks_cache[u].list)
    /\ UNCHANGED <<phase, send_queue_set, send_queue, send_workers_started, worker_tasks,
                   login_states, db_tasks, restore_pending, resolvers, events_left, dropped,
                   send_queue_maxsize, event, filter_call, send_result, start_calls>>

Labels == {"t1"}
ForwaddSources == {<<SourceChat>>}
ForwaddTargets == {<<200>>}
DefaultTask == Task("t1", <<SourceChat>>, <<200>>, TASK_SETTINGS_DEFAULT)

\* /forwadd (the user is logged in) and then the name, the sources and the targets
handle_forwadd_steps(u, name, sources, targets) ==
    /\ BotIdle
    /\ db_logged_in[u]
    /\ LET added == \A i \in DOMAIN db_tasks[u] : db_tasks[u][i].label # name
           task == Task(name, sources, targets, TASK_SETTINGS_DEFAULT)
       IN  /\ added
           /\ Len(resolvers) < MaxResolvers
           /\ db_tasks' = [db_tasks EXCEPT ![u] = Append(@, task)]
           /\ tasks_cache' = [setdefault_tasks(tasks_cache, u) EXCEPT
                                 ![u].list = Append(@, task)]
           /\ resolvers' = Append(resolvers, Resolver(u, targets))
    /\ UNCHANGED <<phase, send_queue_set, send_queue, send_workers_started, worker_tasks,
                   clients, user_clients, login_states,
                   handler_registered, target_entity_cache, db_logged_in,
                   restore_pending, listeners, events_left, dropped,
                   send_queue_maxsize, event, filter_call, send_result, start_calls>>

\* /fortasks: an absent or empty tasks_cache entry is reloaded from the database
fortasks_command(u) ==
    /\ BotIdle
    /\ ~tasks_cache[u].has \/ tasks_cache[u].list = <<>>
    /\ tasks_cache' = [tasks_cache EXCEPT ![u] = [has |-> TRUE, list |-> db_tasks[u]]]
    /\ UNCHANGED <<phase, send_queue_set, send_queue, send_workers_started, worker_tasks,
                   clients, user_clients, login_states,
                   handler_registered, target_entity_cache, db_logged_in, db_tasks,
                   restore_pending, listeners, resolvers, events_left, dropped,
                   send_queue_maxsize, event, filter_call, send_result, start_calls>>

\* button_handler for "toggle_<setting>_<label>": the setting of the first task
\* of the cache with that label is flipped in the task object itself, the one
\* the list of tasks_cache holds, and the new settings are stored in the
\* database.  One flip is one step: the handler awaits the database call and
\* then calls itself again with the same callback data.
ToggleSettings == {"outgoing", "control"}

button_handler_toggle(u, label, setting) ==
    /\ BotIdle
    /\ tasks_cache[u].has
    /\ \E i \in DOMAIN tasks_cache[u].list : tasks_cache[u].list[i].label = label
    /\ LET list == tasks_cache[u].list
           i == CHOOSE k \in DOMAIN list :
                    /\ list[k].label = label
                    /\ \A j \in 1..(k - 1) : list[j].label # label
           settings == [list[i].settings EXCEPT ![setting] = ~@]
       IN  /\ tasks_cache' = [tasks_cache EXCEPT ![u].list[i].settings = settings]
           /\ db_tasks' = [db_tasks EXCEPT ![u] =
                              [k \in DOMAIN @ |->
                                  IF @[k].label = label
                                  THEN [@[k] EXCEPT !.settings = settings] ELSE @[k]]]
    /\ UNCHANGED <<phase, send_queue_set, send_queue, send_workers_started, worker_tasks,
                   clients, user_clients, login_states, handler_registered,
                   target_entity_cache, db_logged_in, restore_pending, listeners,
                   resolvers, events_left, dropped,
                   send_queue_maxsize, event, filter_call, send_result, start_calls>>

(***************************************************************************)
(* Shutdown (main).  run_polling returns once its event loop has stopped;  *)
(* the coroutines scheduled on that loop (workers, listeners, resolvers)   *)
(* stay suspended where they are and never run again.  shutdown_cleanup is *)
(* then run by asyncio.run on a new event loop: Task.cancel() on a task of *)
(* the stopped loop either raises (loop closed) or marks a task that never *)
(* runs again, and gather() of tasks of another loop raises; both are      *)
(* caught and logged, so the worker tasks stay as they are.  The handler   *)
(* of each user of user_clients is removed from that user's client, the    *)
(* clients are asked to disconnect (whether a disconnect made from the new *)
(* loop goes through is left open), and user_clients is cleared.           *)
(***************************************************************************)
run_polling_returns ==
    /\ phase = "polling"
    /\ phase' = "stopped"
    /\ UNCHANGED <<send_queue_set, send_queue, send_workers_started, worker_tasks,
                   clients, user_clients, login_states, handler_registered, tasks_cache,
                   target_entity_cache, db_logged_in, db_tasks, restore_pending,
                   listeners, resolvers, events_left, dropped,
                   send_queue_maxsize, event, filter_call, send_result, start_calls>>

\* shutdown_cleanup with the same cancel and gather calls on tasks that honour them
shutdown_cleanup_clearing(disconnected) ==
    /\ phase = "stopped"
    /\ phase' = "cleaned"
    /\ clients' = [c \in DOMAIN clients |->
                      IF \E u \in Users : user_clients[u] = c
                      THEN [clients[c] EXCEPT
                               !.handler = @ /\ handler_registered[clients[c].owner] # c,
                               !.connected = @ /\ ~disconnected]
                      ELSE clients[c]]
    /\ handler_registered' = [u \in Users |->
                                 IF user_clients[u] # NoClient THEN NoClient
                                 ELSE handler_registered[u]]
    /\ user_clients' = [u \in Users |-> NoClient]
    /\ send_queue' = <<>>
    /\ worker_tasks' = [w \in DOMAIN worker_tasks |-> Worker("done", NoJob, NoEntity)]
    /\ UNCHANGED <<send_queue_set, send_workers_started,
                   login_states, tasks_cache,
                   target_entity_cache, db_logged_in, db_tasks, restore_pending,
                   listeners, resolvers, events_left, dropped,
                   send_queue_maxsize, event, filter_call, send_result, start_calls>>

shutdown_cleanup(disconnected) ==
    /\ phase = "stopped"
    /\ phase' = "cleaned"
    /\ clients' = [c \in DOMAIN clients |->
                      IF \E u \in Users : user_clients[u] = c
                      THEN [clients[c] EXCEPT
                               !.handler = @ /\ handler_registered[clients[c].owner] # c,
                               !.connected = @ /\ ~disconnected]
                      ELSE clients[c]]
    /\ handler_registered' = [u \in Users |->
                                 IF user_clients[u] # NoClient THEN NoClient
                                 ELSE handler_registered[u]]
    /\ user_clients' = [u \in Users |-> NoClient]
    /\ UNCHANGED <<send_queue_set, send_queue, send_workers_started, worker_tasks,
                   login_states, tasks_cache,
                   target_entity_cache, db_logged_in, db_tasks, restore_pending,
                   listeners, resolvers, events_left, dropped,
                   send_queue_maxsize, event, filter_call, send_result, start_calls>>

(***************************************************************************)
(* The specification.                                                      *)
(***************************************************************************)
Init ==
    /\ phase = "boot"
    /\ send_queue_set = FALSE
    /\ send_queue = <<>>
    /\ send_workers_started = FALSE
    /\ worker_tasks = <<>>
    /\ clients = <<>>
    /\ user_clients = [u \in Users |-> NoClient]
    /\ login_states = [u \in Users |-> FALSE]
    /\ handler_registered = [u \in Users |-> NoClient]
    /\ tasks_cache = [u \in Users |-> NoTasks]
    /\ target_entity_cache = [u \in Users |-> NoCache]
    /\ db_logged_in \in {f \in [Users -> BOOLEAN] : \A u \in Users : f[u] => u \in ActiveUsers}
    /\ db_tasks = [u \in Users |-> IF db_logged_in[u] THEN <<DefaultTask>> ELSE <<>>]
    /\ restore_pending = {}
    /\ listeners = <<>>
    /\ resolvers = <<>>
    /\ events_left = BootEvents
    /\ dropped = 0
    /\ send_queue_maxsize = 0
    /\ event = NoEvent
    /\ filter_call = NoCall
    /\ send_result = NoResult
    /\ start_calls = IF send_workers_started THEN 1 ELSE 0

Next ==
    \/ post_init
    \/ \E u \in ActiveUsers, outcome \in RestoreOutcomes : restore_single_session(u, outcome)
    \/ restore_done
    \/ \E u \in ActiveUsers : login_command(u)
    \/ \E u \in ActiveUsers, ok \in BOOLEAN : handle_login_process(u, ok)
    \/ \E u \in ActiveUsers : handle_logout_confirmation(u)
    \/ \E u \in ActiveUsers, name \in Labels, sources \in ForwaddSources,
          targets \in ForwaddTargets : handle_forwadd_steps(u, name, sources, targets)
    \/ \E u \in ActiveUsers : fortasks_command(u)
    \/ \E c \in 1..MaxClients, text \in EventTexts, chat \in EventChats,
          out \in BOOLEAN : hot_message_handler(c, text, chat, out) /\ UNCHANGED event
    \/ \E i \in 1..MaxInflight : listener_resume(i)
    \/ \E w \in 1..SEND_WORKER_COUNT : worker_get(w)
    \/ \E w \in 1..SEND_WORKER_COUNT, h \in Handles \cup {NoEntity} : worker_resolved(w, h)
    \/ \E w \in 1..SEND_WORKER_COUNT, result \in SendResults :
          worker_sent(w, result) /\ UNCHANGED send_result
    \/ \E w \in 1..SEND_WORKER_COUNT : worker_requeue(w)
    \/ \E i \in 1..MaxResolvers : resolver_start(i)
    \/ \E i \in 1..MaxResolvers, h \in Handles \cup {NoEntity} : resolver_resolved(i, h)
    \/ \E i \in 1..MaxResolvers : resolver_wake(i)

Spec == Init /\ [][Next]_vars

(***************************************************************************)
(* The pipeline on its own: the workers are started, every user of         *)
(* PipelineUsers is logged in on one client with its listener attached and *)
(* has one task, and nobody talks to the bot any more.  The program is in  *)
(* this state after start-up, then /login and /forwadd by each user.       *)
(***************************************************************************)
PipelineUsers == {1, 2}

PipelineInit ==
    /\ phase = "polling"
    /\ send_queue_set = TRUE
    /\ send_queue = <<>>
    /\ send_workers_started = TRUE
    /\ worker_tasks = [i \in 1..SEND_WORKER_COUNT |-> IdleWorker]
    /\ clients = [c \in 1..Cardinality(PipelineUsers) |->
                     [NewClient(c) EXCEPT !.handler = TRUE]]
    /\ user_clients = [u \in Users |-> IF u \in PipelineUsers THEN u ELSE NoClient]
    /\ login_states = [u \in Users |-> FALSE]
    /\ handler_registered = [u \in Users |-> IF u \in PipelineUsers THEN u ELSE NoClient]
    /\ tasks_cache = [u \in Users |->
                         IF u \in PipelineUsers
                         THEN [has |-> TRUE, list |-> <<DefaultTask>>] ELSE NoTasks]
    /\ target_entity_cache = [u \in Users |->
                                 IF u \in PipelineUsers
                                 THEN [has |-> TRUE, map |-> EmptyMap] ELSE NoCache]
    /\ db_logged_in = [u \in Users |-> u \in PipelineUsers]
    /\ db_tasks = [u \in Users |-> IF u \in PipelineUsers THEN <<DefaultTask>> ELSE <<>>]
    /\ restore_pending = {}
    /\ listeners = <<>>
    /\ resolvers = <<>>
    /\ events_left = MaxEvents
    /\ dropped = 0
    /\ send_queue_maxsize = SEND_QUEUE_MAXSIZE
    /\ event = NoEvent
    /\ filter_call = NoCall
    /\ send_result = NoResult
    /\ start_calls = IF send_workers_started THEN 1 ELSE 0

PipelineNext ==
    \/ \E c \in 1..MaxClients, text \in EventTexts, chat \in EventChats,
          out \in BOOLEAN : hot_message_handler(c, text, chat, out) /\ UNCHANGED event
    \/ \E i \in 1..MaxInflight : listener_resume(i)
    \/ \E w \in 1..SEND_WORKER_COUNT : worker_get(w)
    \/ \E w \in 1..SEND_WORKER_COUNT, h \in Handles \cup {NoEntity} : worker_resolved(w, h)
    \/ \E w \in 1..SEND_WORKER_COUNT, result \in SendResults :
          worker_sent(w, result) /\ UNCHANGED send_result
    \/ \E w \in 1..SEND_WORKER_COUNT : worker_requeue(w)

PipelineSpec == PipelineInit /\ [][PipelineNext]_vars

(***************************************************************************)
(* The listener on its own: user 1 is logged in on one client and has up   *)
(* to two tasks out of ListenerTasks; events arrive and nothing is taken   *)
(* from the queue, which was made with maxsize ListenerQueueMaxsize.  The  *)
(* event delivered last is recorded in the variable event.                 *)
(***************************************************************************)
ListenerTexts ==
    {<<>>, <<"9", "9", "9">>, <<"h", "e", "l", "l", "o">>, <<"a", " ", "1", " ", "2">>}
ListenerChats == {NoChat, SourceChat} \cup TargetChats

ListenerTasks ==
    { DefaultTask,
      Task("t2", <<SourceChat>>, <<200, 300>>, TASK_SETTINGS_DEFAULT),
      Task("t3", <<SourceChat>>, <<200>>, [TASK_SETTINGS_DEFAULT EXCEPT !.control = FALSE]),
      Task("t4", <<SourceChat>>, <<300>>, [TASK_SETTINGS_DEFAULT EXCEPT !.outgoing = FALSE]),
      Task("t5", <<SourceChat>>, <<200, 300>>,
           [TASK_SETTINGS_DEFAULT EXCEPT !.filter_remove_numeric = TRUE,
                                         !.filter_prefix = <<"#">>]),
      Task("t6", <<300>>, <<200>>, [TASK_SETTINGS_DEFAULT EXCEPT !.filter_raw = TRUE]) }

ListenerInit ==
    /\ phase = "polling"
    /\ send_queue_set = TRUE
    /\ send_queue = <<>>
    /\ send_queue_maxsize = ListenerQueueMaxsize
    /\ send_workers_started = TRUE
    /\ worker_tasks = [i \in 1..SEND_WORKER_COUNT |-> IdleWorker]
    /\ clients = <<[NewClient(1) EXCEPT !.handler = TRUE]>>
    /\ user_clients = [u \in Users |-> IF u = 1 THEN 1 ELSE NoClient]
    /\ login_states = [u \in Users |-> FALSE]
    /\ handler_registered = [u \in Users |-> IF u = 1 THEN 1 ELSE NoClient]
    /\ \E list \in UNION {[1..n -> ListenerTasks] : n \in 0..2} :
          /\ tasks_cache = [u \in Users |->
                               IF u = 1 THEN [has |-> TRUE, list |-> list] ELSE NoTasks]
          /\ db_tasks = [u \in Users |-> IF u = 1 THEN list ELSE <<>>]
    /\ target_entity_cache = [u \in Users |->
                                 IF u = 1 THEN [has |-> TRUE, map |-> EmptyMap] ELSE NoCache]
    /\ db_logged_in = [u \in Users |-> u = 1]
    /\ restore_pending = {}
    /\ listeners = <<>>
    /\ resolvers = <<>>
    /\ events_left = ListenerEvents
    /\ dropped = 0
    /\ event = NoEvent
    /\ filter_call = NoCall
    /\ send_result = NoResult
    /\ start_calls = IF send_workers_started THEN 1 ELSE 0

ListenerNext ==
    \E c \in 1..MaxClients, text \in ListenerTexts, chat \in ListenerChats, out \in BOOLEAN :
        /\ hot_message_handler(c, text, chat, out)
        /\ event' = [client |-> c, text |-> text, chat_id |-> chat, out |-> out]

ListenerSpec == ListenerInit /\ [][ListenerNext]_vars

(***************************************************************************)
(* apply_filters_to_text on its own: one call with a text and settings     *)
(* drawn at the start, which then returns.  The texts are all the strings  *)
(* of up to FilterMaxLen characters over a letter, a digit, a blank and a  *)
(* character that is none of them, and the texts of FilterExamples; the    *)
(* settings are every combination of the five filter switches with the     *)
(* prefix and the suffix unset (None), empty or one character.             *)
(***************************************************************************)
FilterMaxLen == 3
FilterAlphabet == {"a", "1", " ", "-"}
FilterExamples ==
    { <<"a", "b", "c", " ", "1", "2", "3", " ", "a", "1", "b", "2", " ", "x", "y", "z", " ", "7">>,
      <<"4", "2">>,
      <<"4", "2", "a", "b", "c">>,
      <<" ", "4", "2", " ">>,
      <<"a", "1", " ", "7">>,
      <<"7", " ", "a", "1">>,
      <<"a", "b", "c", " ", "a", "1">>,
      <<"a", "1", "b", "2">>,
      <<"x", "1", " ", "y", " ", "2", " ", "3">> }
FilterTexts == UNION {[1..n -> FilterAlphabet] : n \in 0..FilterMaxLen} \cup FilterExamples

FilterSettings ==
    { [TASK_SETTINGS_DEFAULT EXCEPT !.filter_raw = f[1], !.filter_numbers = f[2],
                                    !.filter_alpha = f[3],
                                    !.filter_remove_alpha = f[4],
                                    !.filter_remove_numeric = f[5],
                                    !.filter_prefix = prefix, !.filter_suffix = suffix] :
        f \in [1..5 -> BOOLEAN], prefix \in {None, <<>>, <<"#">>},
        suffix \in {None, <<"!">>} }

FilterInit ==
    /\ phase = "boot"
    /\ send_queue_set = FALSE
    /\ send_queue = <<>>
    /\ send_queue_maxsize = 0
    /\ send_workers_started = FALSE
    /\ worker_tasks = <<>>
    /\ clients = <<>>
    /\ user_clients = [u \in Users |-> NoClient]
    /\ login_states = [u \in Users |-> FALSE]
    /\ handler_registered = [u \in Users |-> NoClient]
    /\ tasks_cache = [u \in Users |-> NoTasks]
    /\ target_entity_cache = [u \in Users |-> NoCache]
    /\ db_logged_in = [u \in Users |-> FALSE]
    /\ db_tasks = [u \in Users |-> <<>>]
    /\ restore_pending = {}
    /\ listeners = <<>>
    /\ resolvers = <<>>
    /\ events_left = 0
    /\ dropped = 0
    /\ event = NoEvent
    /\ \E message_text \in FilterTexts, settings \in FilterSettings :
          filter_call = [message_text |-> message_text, settings |-> settings,
                         results |-> <<>>, returned |-> FALSE]
    /\ send_result = NoResult
    /\ start_calls = IF send_workers_started THEN 1 ELSE 0

\* the call returns the list apply_filters_to_text computes
call_apply_filters_to_text ==
    /\ ~filter_call.returned
    /\ filter_call' =
          [filter_call EXCEPT
              !.results = apply_filters_to_text(filter_call.message_text,
                                                filter_call.settings),
              !.returned = TRUE]
    /\ UNCHANGED <<phase, send_queue_set, send_queue, send_workers_started, worker_tasks,
                   clients, user_clients, login_states, handler_registered, tasks_cache,
                   target_entity_cache, db_logged_in, db_tasks, restore_pending,
                   listeners, resolvers, events_left, dropped, send_queue_maxsize, event,
                   send_result, start_calls>>

FilterNext == call_apply_filters_to_text

FilterSpec == FilterInit /\ [][FilterNext]_vars

(***************************************************************************)
(* Destination resolution on its own: user 1 is logged in on one client    *)
(* and has just added a task with the targets ResolverTargets, so that the *)
(* background resolver of /forwadd is scheduled; one or two jobs of the    *)
(* user are already on the queue, which holds ResolverQueueMaxsize         *)
(* entries.  The workers and the resolver run, the provider answers a      *)
(* resolution with one of ResolverHandles or with an error, and the user   *)
(* may log out.  send_result records how the last send_message call ended. *)
(***************************************************************************)
ResolverQueueMaxsize == 2
ResolverHandles == {1, 2}
ResolverTargets == <<200, 300>>
ResolverTask == Task("t1", <<SourceChat>>, ResolverTargets, TASK_SETTINGS_DEFAULT)
ResolverJobs == {Job(1, 1, t, <<"9">>) : t \in TargetChats}

ResolverInit ==
    /\ phase = "polling"
    /\ send_queue_set = TRUE
    /\ send_queue \in UNION {[1..n -> ResolverJobs] : n \in 1..ResolverQueueMaxsize}
    /\ send_queue_maxsize = ResolverQueueMaxsize
    /\ send_workers_started = TRUE
    /\ worker_tasks = [i \in 1..SEND_WORKER_COUNT |-> IdleWorker]
    /\ clients = <<[NewClient(1) EXCEPT !.handler = TRUE]>>
    /\ user_clients = [u \in Users |-> IF u = 1 THEN 1 ELSE NoClient]
    /\ login_states = [u \in Users |-> FALSE]
    /\ handler_registered = [u \in Users |-> IF u = 1 THEN 1 ELSE NoClient]
    /\ tasks_cache = [u \in Users |->
                         IF u = 1 THEN [has |-> TRUE, list |-> <<ResolverTask>>] ELSE NoTasks]
    /\ target_entity_cache = [u \in Users |->
                                 IF u = 1 THEN [has |-> TRUE, map |-> EmptyMap] ELSE NoCache]
    /\ db_logged_in = [u \in Users |-> u = 1]
    /\ db_tasks = [u \in Users |-> IF u = 1 THEN <<ResolverTask>> ELSE <<>>]
    /\ restore_pending = {}
    /\ listeners = <<>>
    /\ resolvers = <<Resolver(1, ResolverTargets)>>
    /\ events_left = 0
    /\ dropped = 0
    /\ event = NoEvent
    /\ filter_call = NoCall
    /\ send_result = NoResult
    /\ start_calls = IF send_workers_started THEN 1 ELSE 0

ResolverNext ==
    \/ \E w \in 1..SEND_WORKER_COUNT : worker_get(w)
    \/ \E w \in 1..SEND_WORKER_COUNT, h \in ResolverHandles \cup {NoEntity} :
          worker_resolved(w, h)
    \/ \E w \in 1..SEND_WORKER_COUNT, result \in SendResults :
          worker_sent(w, result) /\ send_result' = result
    \/ \E w \in 1..SEND_WORKER_COUNT : worker_requeue(w)
    \/ \E i \in 1..MaxResolvers : resolver_start(i)
    \/ \E i \in 1..MaxResolvers, h \in ResolverHandles \cup {NoEntity} :
          resolver_resolved(i, h)
    \/ \E i \in 1..MaxResolvers : resolver_wake(i)
    \/ handle_logout_confirmation(1)

ResolverSpec == ResolverInit /\ [][ResolverNext]_vars

\* the event loop runs every task that is ready: a resolver that can take a
\* step (a provider call that ends, a delay that is over) takes it
ResolverFairSpec ==
    /\ ResolverSpec
    /\ WF_vars(\E i \in 1..MaxResolvers : resolver_start(i))
    /\ WF_vars(\E i \in 1..MaxResolvers, h \in ResolverHandles \cup {NoEntity} :
                  resolver_resolved(i, h))
    /\ WF_vars(\E i \in 1..MaxResolvers : resolver_wake(i))

(***************************************************************************)
(* The task registry under the pipeline: user 1 is logged in on one client *)
(* with its listener attached and has one task; RegistryEvents events      *)
(* arrive, the workers run, and the user talks to the bot meanwhile: it    *)
(* adds the task RegistryLabel with /forwadd and flips the switches of its *)
(* tasks with the task menu.                                               *)
(***************************************************************************)
RegistryEvents == 2
RegistryLabel == "t2"
RegistryTargets == {<<300>>}

RegistryInit ==
    /\ phase = "polling"
    /\ send_queue_set = TRUE
    /\ send_queue = <<>>
    /\ send_queue_maxsize = SEND_QUEUE_MAXSIZE
    /\ send_workers_started = TRUE
    /\ worker_tasks = [i \in 1..SEND_WORKER_COUNT |-> IdleWorker]
    /\ clients = <<[NewClient(1) EXCEPT !.handler = TRUE]>>
    /\ user_clients = [u \in Users |-> IF u = 1 THEN 1 ELSE NoClient]
    /\ login_states = [u \in Users |-> FALSE]
    /\ handler_registered = [u \in Users |-> IF u = 1 THEN 1 ELSE NoClient]
    /\ tasks_cache = [u \in Users |->
                         IF u = 1 THEN [has |-> TRUE, list |-> <<DefaultTask>>] ELSE NoTasks]
    /\ target_entity_cache = [u \in Users |->
                                 IF u = 1 THEN [has |-> TRUE, map |-> EmptyMap] ELSE NoCache]
    /\ db_logged_in = [u \in Users |-> u = 1]
    /\ db_tasks = [u \in Users |-> IF u = 1 THEN <<DefaultTask>> ELSE <<>>]
    /\ restore_pending = {}
    /\ listeners = <<>>
    /\ resolvers = <<>>
    /\ events_left = RegistryEvents
    /\ dropped = 0
    /\ event = NoEvent
    /\ filter_call = NoCall
    /\ send_result = NoResult
    /\ start_calls = IF send_workers_started THEN 1 ELSE 0

RegistryNext ==
    \/ PipelineNext
    \/ \E sources \in ForwaddSources, targets \in RegistryTargets :
          handle_forwadd_steps(1, RegistryLabel, sources, targets)
    \/ \E label \in Labels \cup {RegistryLabel}, setting \in ToggleSettings :
          button_handler_toggle(1, label, setting)
    \/ \E i \in 1..MaxResolvers : resolver_start(i)
    \/ \E i \in 1..MaxResolvers, h \in Handles \cup {NoEntity} : resolver_resolved(i, h)
    \/ \E i \in 1..MaxResolvers : resolver_wake(i)

RegistrySpec == RegistryInit /\ [][RegistryNext]_vars

(***************************************************************************)
(* The worker pool to its end: the pipeline, a dequeue that raises, and    *)
(* the shutdown.                                                           *)
(***************************************************************************)
PoolNext ==
    \/ PipelineNext
    \/ \E w \in 1..SEND_WORKER_COUNT : worker_get_failed(w)
    \/ run_polling_returns
    \/ \E disconnected \in BOOLEAN : shutdown_cleanup(disconnected)

PoolSpec == PipelineInit /\ [][PoolNext]_vars

(***************************************************************************)
(* Several accounts: the workers are started, the users of AccountsUsers   *)
(* are logged in with one task each, and each of them may log out and log  *)
(* in again while events arrive and the workers run.                       *)
(***************************************************************************)
AccountsEvents == 2        \* NewMessage events delivered in AccountsSpec
AccountsUsers == {1, 2}

AccountsInit ==
    /\ phase = "polling"
    /\ send_queue_set = TRUE
    /\ send_queue = <<>>
    /\ send_queue_maxsize = SEND_QUEUE_MAXSIZE
    /\ send_workers_started = TRUE
    /\ worker_tasks = [i \in 1..SEND_WORKER_COUNT |-> IdleWorker]
    /\ LET logged == AccountsUsers IN
          /\ clients = [c \in 1..Cardinality(logged) |->
                           [NewClient(c) EXCEPT !.handler = TRUE]]
          /\ user_clients = [u \in Users |-> IF u \in logged THEN u ELSE NoClient]
          /\ handler_registered = [u \in Users |-> IF u \in logged THEN u ELSE NoClient]
          /\ tasks_cache = [u \in Users |->
                               IF u \in logged
                               THEN [has |-> TRUE, list |-> <<DefaultTask>>] ELSE NoTasks]
          /\ target_entity_cache = [u \in Users |->
                                       IF u \in logged
                                       THEN [has |-> TRUE, map |-> EmptyMap] ELSE NoCache]
          /\ db_logged_in = [u \in Users |-> u \in logged]
          /\ db_tasks = [u \in Users |-> IF u \in logged THEN <<DefaultTask>> ELSE <<>>]
    /\ login_states = [u \in Users |-> FALSE]
    /\ restore_pending = {}
    /\ listeners = <<>>
    /\ resolvers = <<>>
    /\ events_left = AccountsEvents
    /\ dropped = 0
    /\ event = NoEvent
    /\ filter_call = NoCall
    /\ send_result = NoResult
    /\ start_calls = IF send_workers_started THEN 1 ELSE 0

AccountsNext ==
    \/ PipelineNext
    \/ \E u \in AccountsUsers : login_command(u)
    \/ \E u \in AccountsUsers, ok \in BOOLEAN : handle_login_process(u, ok)
    \/ \E u \in AccountsUsers : handle_logout_confirmation(u)

AccountsSpec == AccountsInit /\ [][AccountsNext]_vars

(***************************************************************************)
(* Start-up on its own: post_init starts the workers and restores the      *)
(* stored sessions, start_send_workers may be called again at any time,    *)
(* and events arrive while the workers and the resolvers run; the event    *)
(* delivered last is recorded in the variable event.  Nobody talks to the  *)
(* bot.                                                                    *)
(***************************************************************************)
BootNext ==
    \/ post_init
    \/ await_start_send_workers
    \/ \E u \in ActiveUsers, outcome \in RestoreOutcomes : restore_single_session(u, outcome)
    \/ restore_done
    \/ \E c \in 1..MaxClients, text \in EventTexts, chat \in EventChats, out \in BOOLEAN :
          /\ hot_message_handler(c, text, chat, out)
          /\ event' = [client |-> c, text |-> text, chat_id |-> chat, out |-> out]
    \/ \E i \in 1..MaxInflight : listener_resume(i)
    \/ \E w \in 1..SEND_WORKER_COUNT : worker_get(w)
    \/ \E w \in 1..SEND_WORKER_COUNT, h \in Handles \cup {NoEntity} : worker_resolved(w, h)
    \/ \E w \in 1..SEND_WORKER_COUNT, result \in SendResults :
          worker_sent(w, result) /\ UNCHANGED send_result
    \/ \E w \in 1..SEND_WORKER_COUNT : worker_requeue(w)
    \/ \E i \in 1..MaxResolvers : resolver_start(i)
    \/ \E i \in 1..MaxResolvers, h \in Handles \cup {NoEntity} : resolver_resolved(i, h)
    \/ \E i \in 1..MaxResolvers : resolver_wake(i)

BootSpec == Init /\ [][BootNext]_vars

(***************************************************************************)
(* The pipeline with the scheduling of the event loop: a coroutine whose   *)
(* await has completed is run (a worker whose get, resolution, send, sleep *)
(* or put can return, a listener whose put can return).                    *)
(***************************************************************************)
PipelineFairness ==
    /\ \A w \in 1..SEND_WORKER_COUNT :
          /\ WF_vars(worker_get(w))
          /\ WF_vars(\E h \in Handles \cup {NoEntity} : worker_resolved(w, h))
          /\ WF_vars(\E result \in SendResults :
                        worker_sent(w, result) /\ UNCHANGED send_result)
          /\ WF_vars(worker_requeue(w))
    /\ \A i \in 1..MaxInflight : WF_vars(listener_resume(i))

PipelineFairSpec == PipelineSpec /\ PipelineFairness

(***************************************************************************)
(* Logins on their own: at most MAX_CONCURRENT_USERS users have a stored   *)
(* session, nobody has a task, the sessions are restored at start-up and   *)
(* then every user may log in and log out.  No event arrives.              *)
(***************************************************************************)
LoginInit ==
    /\ phase = "boot"
    /\ send_queue_set = FALSE
    /\ send_queue = <<>>
    /\ send_queue_maxsize = 0
    /\ send_workers_started = FALSE
    /\ worker_tasks = <<>>
    /\ clients = <<>>
    /\ user_clients = [u \in Users |-> NoClient]
    /\ login_states = [u \in Users |-> FALSE]
    /\ handler_registered = [u \in Users |-> NoClient]
    /\ tasks_cache = [u \in Users |-> NoTasks]
    /\ target_entity_cache = [u \in Users |-> NoCache]
    /\ db_logged_in \in {f \in [Users -> BOOLEAN] :
                            Cardinality({u \in Users : f[u]}) <= MAX_CONCURRENT_USERS}
    /\ db_tasks = [u \in Users |-> <<>>]
    /\ restore_pending = {}
    /\ listeners = <<>>
    /\ resolvers = <<>>
    /\ events_left = 0
    /\ dropped = 0
    /\ event = NoEvent
    /\ filter_call = NoCall
    /\ send_result = NoResult
    /\ start_calls = 0

LoginNext ==
    \/ post_init
    \/ \E u \in Users, outcome \in RestoreOutcomes : restore_single_session(u, outcome)
    \/ restore_done
    \/ \E u \in Users : login_command(u)
    \/ \E u \in Users, ok \in BOOLEAN : handle_login_process(u, ok)
    \/ \E u \in Users : handle_logout_confirmation(u)

LoginSpec == LoginInit /\ [][LoginNext]_vars


(***************************************************************************)
(* The properties.                                                         *)
(***************************************************************************)

\* C1: the listener never blocks on a full queue: no invocation of
\* _hot_message_handler is ever suspended in its enqueue, each one runs to
\* completion within the step that delivers its event.
C1_ListenerNeverSuspends == listeners = <<>>

\* C2: every enqueue attempt that finds the queue full (an invocation of the
\* listener stopping at its put, or a worker stopping at its re-enqueue) drops
\* that one job: the drop count grows by exactly 1 and the queue is unchanged.
C2_FullQueueDropsAndCounts ==
    [][(\/ Len(listeners') > Len(listeners)
        \/ \E w \in Workers : /\ worker_tasks[w].pc = "sleep"
                              /\ worker_tasks'[w].pc = "put")
       => (dropped' = dropped + 1 /\ send_queue' = send_queue)]_vars

\* C3: in every reachable state the queue holds at most SEND_QUEUE_MAXSIZE jobs.
C3_QueueWithinCapacity == Len(send_queue) <= SEND_QUEUE_MAXSIZE

\* C3 witness: the queue is at capacity while an invocation of the listener and
\* a rate-limited worker both have a job they could not add.
C3_QueueAtCapacityWithProducersWaiting ==
    /\ Len(send_queue) = SEND_QUEUE_MAXSIZE
    /\ listeners # <<>>
    /\ \E w \in Workers : worker_tasks[w].pc = "put"

\* C4: at most one listener is active per account: in every reachable state at
\* most one connected client of an account has the account's handler attached,
\* so that an event of the account invokes the listener once.
C4_OneActiveListenerPerAccount ==
    \A u \in Users :
        Cardinality({c \in ClientIds : /\ clients[c].owner = u
                                       /\ clients[c].connected
                                       /\ clients[c].handler}) <= 1

\* C5: every step that makes a client the current connection of an account (a
\* successful login or restore) leaves the account's registered listener
\* attached to that client.
C5_ListenerOnCurrentConnection ==
    [][\A u \in Users :
          (user_clients'[u] # NoClient /\ user_clients'[u] # user_clients[u])
          => /\ handler_registered'[u] = user_clients'[u]
             /\ clients'[user_clients'[u]].handler]_vars

\* C6: in every reachable state an account has at most one connected client.
C6_OneLiveConnectionPerAccount ==
    \A u \in Users :
        Cardinality({c \in ClientIds : clients[c].owner = u /\ clients[c].connected}) <= 1

\* C7: when a confirmed logout of an account completes, the account has no
\* registered listener (none stored and none attached to a client of the
\* account), no connection entry, no destination cache and no task snapshot,
\* and its connection has been disconnected.
C7_LogoutTearsDownAccount ==
    [][\A u \in Users :
          (BotIdle /\ db_logged_in[u] /\ ~db_logged_in'[u])
          => /\ handler_registered'[u] = NoClient
             /\ \A c \in DOMAIN clients' : clients'[c].owner = u => ~clients'[c].handler
             /\ user_clients'[u] = NoClient
             /\ ~target_entity_cache'[u].has
             /\ ~tasks_cache'[u].has
             /\ user_clients[u] # NoClient => ~clients'[user_clients[u]].connected]_vars

\* C8: a destination cache or a task snapshot is created for an account only
\* by its login or restore (start-up included), never by a worker, a resolver
\* or a task-authoring command acting for an account without a connection
\* entry; and a resolved destination leaves the cache only by the logout.
C8_PipelineStateOnlyByLoginAndLogout ==
    [][\A u \in Users :
          /\ ((~target_entity_cache[u].has /\ target_entity_cache'[u].has)
               \/ (~tasks_cache[u].has /\ tasks_cache'[u].has))
              => (phase # "polling"
                  \/ (user_clients'[u] # NoClient /\ user_clients'[u] # user_clients[u]))
          /\ (\E t \in TargetChats : /\ target_entity_cache[u].map[t] # NoEntity
                                       /\ target_entity_cache'[u].map[t] = NoEntity)
              => (BotIdle /\ db_logged_in[u] /\ ~db_logged_in'[u])]_vars

\* C9: when the wait of a rate-limited worker has elapsed its job is back on
\* the queue: the step that ends the sleep appends the job to the queue.
C9_RequeuedWhenWaitElapses ==
    [][\A w \in Workers :
          (worker_tasks[w].pc = "sleep" /\ worker_tasks'[w].pc # "sleep")
          => send_queue' = Append(send_queue, worker_tasks[w].job)]_vars

\* C10: a worker's re-enqueue never keeps it from its next dequeue whatever the
\* other workers do: the workers are never all suspended in the re-enqueue
\* (a state no worker leaves, as only a worker at get makes room in the queue).
C10_WorkersNeverAllStuckInRequeue ==
    \E w \in Workers : worker_tasks[w].pc # "put"

\* C11: every queue entry is consumed exactly once: a worker takes a job only
\* by removing the head of the queue, the removal gives the job to that one
\* worker and to no other, the worker keeps that job until it is back at get,
\* and a send is attempted only for the job just dequeued (the worker comes to
\* send from get or from resolve, and to resolve from get).
C11_EntryConsumedOnce ==
    [][/\ \A w \in Workers :
            (worker_tasks[w].pc = "get" /\ worker_tasks'[w].pc # "get")
            => /\ send_queue # <<>>
               /\ send_queue' = Tail(send_queue)
               /\ worker_tasks'[w].job = Head(send_queue)
               /\ \A v \in Workers \ {w} : worker_tasks'[v] = worker_tasks[v]
       /\ Len(send_queue') < Len(send_queue)
            => \E w \in Workers : worker_tasks[w].pc = "get" /\ worker_tasks'[w].pc # "get"
       /\ \A w \in Workers :
            /\ (worker_tasks[w].pc # "get" /\ worker_tasks'[w].pc # "get")
               => worker_tasks'[w].job = worker_tasks[w].job
            /\ (worker_tasks'[w].pc = "send" /\ worker_tasks[w].pc # "send")
               => worker_tasks[w].pc \in {"get", "resolve"}
            /\ (worker_tasks'[w].pc = "resolve" /\ worker_tasks[w].pc # "resolve")
               => worker_tasks[w].pc = "get"]_vars

\* C11 witness: two workers are each sending a job, and the two jobs are equal
\* (two entries of the queue made by two events with the same text).
C11_TwoWorkersSendEqualJobs ==
    \E w \in Workers, v \in Workers :
        /\ w # v
        /\ worker_tasks[w].pc = "send" /\ worker_tasks[v].pc = "send"
        /\ worker_tasks[w].job = worker_tasks[v].job

\* C12: an unexpected exception inside one worker iteration (in the dequeue,
\* the resolution or the send) never terminates the worker: while the event
\* loop runs no worker's loop has ended.
C12_NoWorkerEndsWhileRunning ==
    LoopRunning => \A w \in Workers : worker_tasks[w].pc # "done"

\* C13: shutdown cancels every worker: once shutdown_cleanup has returned every
\* worker has terminated, at whichever await it was suspended.
C13_WorkersTerminatedAfterShutdown ==
    phase = "cleaned" => \A w \in Workers : worker_tasks[w].pc = "done"

\* C14: cancelling the workers at shutdown removes no job from the queue: the
\* steps of the shutdown leave the queue as it is, and no worker takes or
\* gives up a job in them (the jobs outside the queue are those the workers
\* already held, one per worker at most).
C14_ShutdownKeepsQueue ==
    [][(phase' # phase /\ phase' \in {"stopped", "cleaned"})
       => /\ send_queue' = send_queue
          /\ \A w \in Workers : worker_tasks'[w].job = worker_tasks[w].job]_vars

\* C14 witness: the shutdown is over, a job is still queued, one worker is at
\* its dequeue and another holds the job it had dequeued.
C14_ShutDownWithQueuedJob ==
    /\ phase = "cleaned"
    /\ send_queue # <<>>
    /\ \E w \in Workers, v \in Workers :
          /\ worker_tasks[w].pc = "get"
          /\ worker_tasks[v].pc \in {"resolve", "send", "sleep", "put"}

\* the jobs of one task for an event: none when the chat is not a source or a
\* gate skips the task, else one per target and per output, targets outermost
jobs_of_task(u, c, task, text, chat, out) ==
    LET outs == apply_filters_to_text(text, task.settings)
        n == Len(outs)
        skipped == \/ \A i \in DOMAIN task.source_ids : task.source_ids[i] # chat
                   \/ ~task.settings.control
                   \/ (out /\ ~task.settings.outgoing)
    IN  IF skipped THEN <<>>
        ELSE [k \in 1..(Len(task.target_ids) * n) |->
                 Job(u, c, task.target_ids[((k - 1) \div n) + 1], outs[((k - 1) % n) + 1])]

RECURSIVE jobs_of_tasks(_, _, _, _, _, _)
jobs_of_tasks(u, c, list, text, chat, out) ==
    IF list = <<>> THEN <<>>
    ELSE jobs_of_task(u, c, Head(list), text, chat, out)
         \o jobs_of_tasks(u, c, Tail(list), text, chat, out)

\* C15: an event with a text and a chat, delivered on account A while the queue
\* has room for all its jobs, appends to the queue exactly, for each task of A
\* in order whose sources hold the chat and that no gate skips, one job
\* (A, connection, target, output) per target and per output of the filter,
\* and the listener returns.
C15_EventEnqueuesItsJobs ==
    [][events_left' < events_left
       => LET e == event'
              u == clients[e.client].owner
              expected == jobs_of_tasks(u, e.client, tasks_cache[u].list,
                                        e.text, e.chat_id, e.out)
          IN  (/\ e.text # <<>>
               /\ e.chat_id # NoChat
               /\ Len(send_queue) + Len(expected) <= send_queue_maxsize)
              => (send_queue' = send_queue \o expected /\ listeners' = listeners)]_vars

\* C15 witness: one task with source 100, targets 200 and 300 and the default
\* settings; the event "999" from chat 100 has put its two jobs on the queue.
C15_TwoJobsFor999 ==
    /\ tasks_cache[1].list = <<Task("t2", <<SourceChat>>, <<200, 300>>, TASK_SETTINGS_DEFAULT)>>
    /\ event = [client |-> 1, text |-> <<"9", "9", "9">>, chat_id |-> SourceChat, out |-> FALSE]
    /\ send_queue = <<Job(1, 1, 200, <<"9", "9", "9">>), Job(1, 1, 300, <<"9", "9", "9">>)>>

(***************************************************************************)
(* Claims about apply_filters_to_text, checked in FilterSpec.              *)
(***************************************************************************)
\* the five filter switches, highest priority first
FilterFlags == <<"filter_raw", "filter_numbers", "filter_alpha",
                 "filter_remove_alpha", "filter_remove_numeric">>

\* the position in FilterFlags of the first switch that is on, 0 when none is
highest_flag(settings) ==
    IF \E k \in 1..5 : settings[FilterFlags[k]]
    THEN CHOOSE k \in 1..5 : /\ settings[FilterFlags[k]]
                             /\ \A j \in 1..(k - 1) : ~settings[FilterFlags[j]]
    ELSE 0

\* settings with every switch cleared but the one of highest priority that is on
highest_only(settings) ==
    [f \in DOMAIN settings |->
        IF \E k \in 1..5 : f = FilterFlags[k]
        THEN highest_flag(settings) # 0 /\ f = FilterFlags[highest_flag(settings)]
        ELSE settings[f]]

\* C16: whatever switches are on together, a call returns what it returns
\* when only the switch of highest priority among them (raw, numbersOnly,
\* alphaOnly, stripAlpha, stripNumeric, in this order) is on and the others
\* are off.
C16_HighestPriorityFilterDecides ==
    filter_call.returned =>
        filter_call.results =
            apply_filters_to_text(filter_call.message_text,
                                  highest_only(filter_call.settings))

\* numbersOnly and alphaOnly are both on and the text "a" has no digit:
\* nothing is returned, although alphaOnly alone would pass the text
C16_NumbersOnlyBeatsAlphaOnly ==
    /\ filter_call.returned
    /\ filter_call.settings.filter_numbers
    /\ filter_call.settings.filter_alpha
    /\ ~filter_call.settings.filter_raw
    /\ filter_call.message_text = <<"a">>
    /\ filter_call.results = <<>>
    /\ apply_filters_to_text(<<"a">>,
          [filter_call.settings EXCEPT !.filter_numbers = FALSE]) # <<>>

\* the maximal runs of characters of text that are not whitespace, each as
\* <<first position, last position>>
word_spans(text) ==
    { sp \in (1..Len(text)) \X (1..Len(text)) :
        /\ sp[1] <= sp[2]
        /\ \A k \in sp[1]..sp[2] : ~isspace(text[k])
        /\ (sp[1] = 1 \/ isspace(text[sp[1] - 1]))
        /\ (sp[2] = Len(text) \/ isspace(text[sp[2] + 1])) }

\* the whitespace-delimited words of text, in the order they occur
words_of(text) ==
    LET spans == word_spans(text)
        nth(k) == CHOOSE sp \in spans : Cardinality({o \in spans : o[1] < sp[1]}) = k - 1
    IN  [k \in 1..Cardinality(spans) |-> SubSeq(text, nth(k)[1], nth(k)[2])]

has_letter(text) == \E i \in DOMAIN text : isalpha(text[i])
has_number(text) == \E i \in DOMAIN text : isdigit(text[i])

\* a word with a letter and no digit; a word with a digit and no letter
letter_word(w) == has_letter(w) /\ ~has_number(w)
digit_word(w) == has_number(w) /\ ~has_letter(w)

\* a prefix or suffix as the text it stands for: nothing when it is unset
unset_is_empty(x) == IF x = None THEN <<>> ELSE x

\* every word of ws between the prefix and the suffix of settings
decorated(ws, settings) ==
    [k \in DOMAIN ws |-> unset_is_empty(settings.filter_prefix) \o ws[k]
                         \o unset_is_empty(settings.filter_suffix)]

\* the switch that decides a call is stripAlpha, or stripNumeric
stripAlpha_effective(settings) == highest_flag(settings) = 4
stripNumeric_effective(settings) == highest_flag(settings) = 5

\* C17: when stripAlpha is the effective filter, the call returns one
\* decorated string per whitespace-delimited word that has a letter and no
\* digit, in the order of the words, if the text holds both a letter and a
\* digit, and returns nothing for every other text.
C17_StripAlphaOutput ==
    (filter_call.returned /\ stripAlpha_effective(filter_call.settings)) =>
        filter_call.results =
            IF has_letter(filter_call.message_text) /\ has_number(filter_call.message_text)
            THEN decorated(SelectSeq(words_of(filter_call.message_text), letter_word),
                           filter_call.settings)
            ELSE <<>>

\* "abc 123 a1b2 xyz 7" under stripAlpha, prefix and suffix unset, gave
\* "abc" and "xyz"
C17_AbcAndXyzKept ==
    /\ filter_call.returned
    /\ stripAlpha_effective(filter_call.settings)
    /\ filter_call.settings.filter_prefix = None
    /\ filter_call.settings.filter_suffix = None
    /\ filter_call.message_text =
          <<"a", "b", "c", " ", "1", "2", "3", " ", "a", "1", "b", "2", " ",
            "x", "y", "z", " ", "7">>
    /\ filter_call.results = << <<"a", "b", "c">>, <<"x", "y", "z">> >>

\* the text has a word with a letter and no digit and a word with a digit and
\* no letter
has_letter_words_and_digit_words(text) ==
    /\ \E k \in DOMAIN words_of(text) : letter_word(words_of(text)[k])
    /\ \E k \in DOMAIN words_of(text) : digit_word(words_of(text)[k])

\* C18 as stated: when stripNumeric is the effective filter, the call returns
\* one decorated string per word that has a digit and no letter, in the order
\* of the words, only if the text has both letter-words and digit-words, and
\* returns nothing for every other text.  Refuted by the text "a1 7", whose
\* only letter is in a word that also has a digit: "7" is returned.
C18_StripNumericOnlyWithLetterWords ==
    (filter_call.returned /\ stripNumeric_effective(filter_call.settings)) =>
        filter_call.results =
            IF has_letter_words_and_digit_words(filter_call.message_text)
            THEN decorated(SelectSeq(words_of(filter_call.message_text), digit_word),
                           filter_call.settings)
            ELSE <<>>

\* C18 amended: when stripNumeric is the effective filter, the call returns
\* one decorated string per whitespace-delimited word that has a digit and no
\* letter, in the order of the words, if the text holds both a letter and a
\* digit anywhere, be it in one and the same word, and returns nothing for
\* every other text.
C18_StripNumericOutput ==
    (filter_call.returned /\ stripNumeric_effective(filter_call.settings)) =>
        filter_call.results =
            IF has_letter(filter_call.message_text) /\ has_number(filter_call.message_text)
            THEN decorated(SelectSeq(words_of(filter_call.message_text), digit_word),
                           filter_call.settings)
            ELSE <<>>

\* "a1 7" under stripNumeric, prefix "#" and suffix "!", gave "#7!"
C18_SevenKeptBesideMixedWord ==
    /\ filter_call.returned
    /\ stripNumeric_effective(filter_call.settings)
    /\ filter_call.settings.filter_prefix = <<"#">>
    /\ filter_call.settings.filter_suffix = <<"!">>
    /\ filter_call.message_text = <<"a", "1", " ", "7">>
    /\ ~has_letter_words_and_digit_words(filter_call.message_text)
    /\ filter_call.results = << <<"#", "7", "!">> >>

\* text from its first to its last character that is not whitespace
trimmed(text) ==
    LET inked == {i \in DOMAIN text : ~isspace(text[i])}
        first == CHOOSE i \in inked : \A j \in inked : i <= j
        last == CHOOSE i \in inked : \A j \in inked : j <= i
    IN  IF inked = {} THEN <<>> ELSE SubSeq(text, first, last)

all_digits(text) == text # <<>> /\ \A i \in DOMAIN text : isdigit(text[i])

\* C19: with all five filter switches off, the call returns the one string
\* prefix + trimmed text + suffix if the text without its leading and
\* trailing whitespace is non-empty and all digits, and returns nothing for
\* every other text.
C19_LegacyDigitsOnly ==
    (filter_call.returned /\ highest_flag(filter_call.settings) = 0) =>
        filter_call.results =
            IF all_digits(trimmed(filter_call.message_text))
            THEN << unset_is_empty(filter_call.settings.filter_prefix)
                    \o trimmed(filter_call.message_text)
                    \o unset_is_empty(filter_call.settings.filter_suffix) >>
            ELSE <<>>

\* " 42 " with every switch off, prefix "#" and suffix "!", gave "#42!"
C19_FortyTwoTrimmedAndDecorated ==
    /\ filter_call.returned
    /\ highest_flag(filter_call.settings) = 0
    /\ filter_call.settings.filter_prefix = <<"#">>
    /\ filter_call.settings.filter_suffix = <<"!">>
    /\ filter_call.message_text = <<" ", "4", "2", " ">>
    /\ filter_call.results = << <<"#", "4", "2", "!">> >>

\* C20: with raw on, whatever the text and the other switches, the call
\* returns exactly one string, prefix + text + suffix, where an unset prefix
\* or suffix is the empty string and the text is taken as it is.
C20_RawReturnsDecoratedText ==
    (filter_call.returned /\ filter_call.settings.filter_raw) =>
        filter_call.results =
            << unset_is_empty(filter_call.settings.filter_prefix)
               \o filter_call.message_text
               \o unset_is_empty(filter_call.settings.filter_suffix) >>

\* " a " with raw and numbersOnly on, prefix unset and suffix "!", gave " a !"
C20_RawKeepsBlanks ==
    /\ filter_call.returned
    /\ filter_call.settings.filter_raw
    /\ filter_call.settings.filter_numbers
    /\ filter_call.settings.filter_prefix = None
    /\ filter_call.settings.filter_suffix = <<"!">>
    /\ filter_call.message_text = <<" ", "a", " ">>
    /\ filter_call.results = << <<" ", "a", " ", "!">> >>

\* the one string prefix + text + suffix of a call
whole_text_decorated(call) ==
    << unset_is_empty(call.settings.filter_prefix) \o call.message_text
       \o unset_is_empty(call.settings.filter_suffix) >>

\* C21: with raw off, a call with numbersOnly on returns the one string
\* prefix + text + suffix if the text holds a digit and nothing otherwise;
\* a call with numbersOnly off and alphaOnly on returns that string if the
\* text holds a letter and nothing otherwise.
C21_PresenceFiltersAllOrNothing ==
    (filter_call.returned /\ ~filter_call.settings.filter_raw) =>
        /\ filter_call.settings.filter_numbers =>
              filter_call.results =
                  IF has_number(filter_call.message_text)
                  THEN whole_text_decorated(filter_call) ELSE <<>>
        /\ (~filter_call.settings.filter_numbers /\ filter_call.settings.filter_alpha) =>
              filter_call.results =
                  IF has_letter(filter_call.message_text)
                  THEN whole_text_decorated(filter_call) ELSE <<>>

\* "1 a" under alphaOnly, prefix "#" and suffix "!", gave "#1 a!"
C21_AlphaOnlyPassesWholeText ==
    /\ filter_call.returned
    /\ highest_flag(filter_call.settings) = 3
    /\ filter_call.settings.filter_prefix = <<"#">>
    /\ filter_call.settings.filter_suffix = <<"!">>
    /\ filter_call.message_text = <<"1", " ", "a">>
    /\ filter_call.results = << <<"#", "1", " ", "a", "!">> >>

(***************************************************************************)
(* Claims about destination resolution, checked in ResolverSpec.           *)
(***************************************************************************)
\* the handle target_entity_cache holds for (u, t), NoEntity when it holds none
cached_handle(u, t) ==
    IF target_entity_cache[u].has THEN target_entity_cache[u].map[t] ELSE NoEntity

\* the workers that hold the handle a resolve returned to them
WorkersWithHandle ==
    {w \in Workers : worker_tasks[w].pc \in {"send", "sleep", "put"}}

\* C22: once a resolve of (account, target) has succeeded and handed a handle
\* to a worker, and the account has not logged out, the cache holds that
\* very handle, so that a later resolve of the same key returns the same
\* handle from the cache.
C22_LaterResolveReturnsSameHandle ==
    \A w \in WorkersWithHandle :
        LET job == worker_tasks[w].job IN
        db_logged_in[job.user_id] =>
            cached_handle(job.user_id, job.target_id) = worker_tasks[w].entity

\* C25: from the moment the cache holds a handle for (account, target) and
\* as long as the account does not log out, every step leaves that handle
\* in the cache as it is.
C25_CachedHandleNeverChanges ==
    [][\A u \in Users, t \in TargetChats :
          (db_logged_in[u] /\ db_logged_in'[u] /\ cached_handle(u, t) # NoEntity)
              => cached_handle(u, t)' = cached_handle(u, t)]_vars

\* worker w ends a resolve call in this step without a handle
worker_resolve_failed(w) ==
    /\ w \in Workers
    /\ worker_tasks[w].pc = "resolve"
    /\ worker_tasks'[w].pc # "resolve"
    /\ worker_tasks'[w].pc # "send"

\* the background resolver ends a resolve call in this step without a handle
resolver_resolve_failed ==
    /\ resolvers # <<>>
    /\ resolvers[1].pc = "resolve"
    /\ resolvers' # <<>>
    /\ resolvers'[1].pc = "sleep"

\* C23: a resolve call that fails writes nothing to the cache; and as the key
\* stays uncached, a later resolve makes a provider call again: a worker
\* that dequeues a job for an uncached key calls the provider, whatever the
\* background resolver did before, and so does the resolver when it wakes
\* with attempts left.
C23_FailedResolveCachesNothing ==
    [][/\ \A w \in Workers :
            worker_resolve_failed(w) => target_entity_cache' = target_entity_cache
       /\ resolver_resolve_failed => target_entity_cache' = target_entity_cache
       /\ \A w \in Workers :
            (/\ worker_tasks[w].pc = "get"
             /\ worker_tasks'[w].pc # "get"
             /\ cached_handle(worker_tasks'[w].job.user_id,
                              worker_tasks'[w].job.target_id) = NoEntity)
                => worker_tasks'[w].pc = "resolve"
       /\ (/\ resolvers # <<>>
           /\ resolvers[1].pc = "sleep"
           /\ resolvers' # resolvers
           /\ resolvers[1].attempt + 1 < RESOLVE_ATTEMPTS
           /\ cached_handle(resolvers[1].user_id,
                            resolvers[1].targets[resolvers[1].idx]) = NoEntity)
              => /\ resolvers' # <<>>
                 /\ resolvers'[1].pc = "resolve"
                 /\ resolvers'[1].idx = resolvers[1].idx
      ]_vars

\* the background resolver has given up on target 200 (it has ended, the
\* user is still logged in and nothing is cached for 200) and a worker is
\* in an on-demand provider call for 200
C23_WorkerResolvesAfterRetriesExhausted ==
    /\ db_logged_in[1]
    /\ resolvers = <<>>
    /\ cached_handle(1, 200) = NoEntity
    /\ \E w \in Workers : /\ worker_tasks[w].pc = "resolve"
                          /\ worker_tasks[w].job.target_id = 200

\* the handle target_entity_cache holds for (u, t) after the step
cached_handle_after(u, t) ==
    IF target_entity_cache'[u].has THEN target_entity_cache'[u].map[t] ELSE NoEntity

\* the background resolver takes a step
resolver_steps == resolvers # <<>> /\ resolvers' # resolvers

\* the background resolver starts a provider call in this step
resolver_attempt_starts ==
    /\ resolver_steps
    /\ resolvers' # <<>>
    /\ resolvers'[1].pc = "resolve"
    /\ resolvers[1].pc # "resolve" \/ resolvers'[1].idx # resolvers[1].idx

\* C24: resolve_targets_for_user (resolveWithRetry) goes through its targets
\* in order; every attempt on a target is its first, second or third; a new
\* attempt on the same target follows a failed one, and an attempt that
\* succeeds is the last on its target; a resolver that finds no connection
\* for its account ends at once and changes nothing; and the resolver ends.
C24_AtMostThreeAttemptsThenNextTarget ==
    /\ [](\A i \in DOMAIN resolvers : resolvers[i].attempt + 1 <= 3)
    /\ [][/\ resolver_attempt_starts =>
                \/ /\ resolvers'[1].idx = resolvers[1].idx
                   /\ resolvers[1].pc = "sleep"
                   /\ resolvers'[1].attempt = resolvers[1].attempt + 1
                \/ /\ resolvers'[1].idx = resolvers[1].idx
                   /\ resolvers[1].pc = "start"
                   /\ resolvers'[1].attempt = 0
                \/ /\ resolvers'[1].idx > resolvers[1].idx
                   /\ resolvers'[1].attempt = 0
          /\ (resolver_steps /\ resolvers' # <<>>) =>
                resolvers'[1].idx >= resolvers[1].idx
          /\ (/\ resolver_steps
              /\ resolvers[1].pc = "resolve"
              /\ ~resolver_resolve_failed)
                => /\ resolvers' = <<>> \/ resolvers'[1].idx > resolvers[1].idx
                   /\ cached_handle_after(resolvers[1].user_id,
                                          resolvers[1].targets[resolvers[1].idx]) # NoEntity
          /\ (/\ resolver_steps
              /\ resolvers[1].pc = "start"
              /\ user_clients[resolvers[1].user_id] = NoClient)
                => /\ resolvers' = <<>>
                   /\ target_entity_cache' = target_entity_cache
                   /\ worker_tasks' = worker_tasks
                   /\ send_queue' = send_queue
         ]_vars
    /\ <>(resolvers = <<>>)

\* the third attempt on the second target has failed, after the resolver
\* gave up on the first target
C24_ThirdAttemptOnSecondTargetFailed ==
    /\ resolvers # <<>>
    /\ resolvers[1].pc = "sleep"
    /\ resolvers[1].idx = 2
    /\ resolvers[1].attempt = 2
    /\ db_logged_in[1]
    /\ cached_handle(1, 200) = NoEntity

\* C27: a worker sends only with a handle; and when the resolve call a worker
\* made for its job ends without a handle, the job is dropped: in that step
\* the worker is back at its dequeue with no job, nothing is put on the
\* queue and no send is made.
C27_UnresolvedJobDropped ==
    /\ [](\A w \in Workers :
            worker_tasks[w].pc = "send" => worker_tasks[w].entity # NoEntity)
    /\ [][\A w \in Workers :
            worker_resolve_failed(w) =>
                /\ worker_tasks'[w] = IdleWorker
                /\ send_queue' = send_queue
                /\ send_result' = send_result]_vars

\* every job that was on the queue has been dropped: the queue is empty,
\* the workers wait for a job, nothing was ever resolved and no send was made
C27_AllJobsDroppedUnsent ==
    /\ db_logged_in[1]
    /\ send_queue = <<>>
    /\ \A w \in Workers : worker_tasks[w] = IdleWorker
    /\ target_entity_cache[1].map = EmptyMap
    /\ send_result = NoResult
    /\ start_calls = IF send_workers_started THEN 1 ELSE 0

\* C28: when a send ends with an error that is no rate limit, the job is
\* dropped: in that step the worker is back at its dequeue with no job and
\* the queue is unchanged; a job is put back on the queue only by a worker
\* that waited out a rate limit, and a worker starts that wait only when its
\* send ended with the rate-limit signal.
C28_FailedSendNotRetried ==
    [][/\ \A w \in Workers :
            (/\ worker_tasks[w].pc = "send"
             /\ worker_tasks'[w].pc # "send"
             /\ send_result' = "error")
                => /\ worker_tasks'[w] = IdleWorker
                   /\ send_queue' = send_queue
       /\ Len(send_queue') > Len(send_queue) =>
            \E w \in Workers :
                /\ worker_tasks[w].pc \in {"sleep", "put"}
                /\ send_queue' = Append(send_queue, worker_tasks[w].job)
       /\ \A w \in Workers :
            (worker_tasks'[w].pc = "sleep" /\ worker_tasks[w].pc # "sleep")
                => worker_tasks[w].pc = "send" /\ send_result' = "flood"
      ]_vars

\* the send made last ended with an error and its job is nowhere: the queue
\* is empty and no worker holds a job
C28_JobGoneAfterSendError ==
    /\ db_logged_in[1]
    /\ send_result = "error"
    /\ send_queue = <<>>
    /\ \A w \in Workers : worker_tasks[w] = IdleWorker

(***************************************************************************)
(* Claims about the gates of a task, checked in ListenerSpec.              *)
(***************************************************************************)
control_enabled(task) == task.settings.control
passes_outgoing(task) == task.settings.outgoing

\* the event of this step is complete and the queue has room for n more jobs
event_with_room(n) ==
    /\ events_left' < events_left
    /\ event'.text # <<>>
    /\ event'.chat_id # NoChat
    /\ Len(send_queue) + n <= send_queue_maxsize

\* C29: the jobs an event puts on the queue are the jobs of the account's
\* tasks whose control switch is on: a task whose control switch is off adds
\* none, whatever its filters, sources and targets, and the tasks beside it
\* add theirs.
C29_ControlOffTaskSkipped ==
    [][LET e == event'
           u == clients[e.client].owner
           list == tasks_cache[u].list
           others == jobs_of_tasks(u, e.client, SelectSeq(list, control_enabled),
                                   e.text, e.chat_id, e.out)
       IN  /\ event_with_room(Len(others)) => send_queue' = send_queue \o others
           /\ (event_with_room(0) /\ \A i \in DOMAIN list : ~control_enabled(list[i]))
                 => send_queue' = send_queue
      ]_vars

\* the first task (target 200) has control off and the second (targets 200
\* and 300) has it on: "999" from chat 100 has put only the two jobs of the
\* second task on the queue
C29_OnlySecondTaskForwarded ==
    /\ tasks_cache[1].list =
          << Task("t3", <<SourceChat>>, <<200>>,
                  [TASK_SETTINGS_DEFAULT EXCEPT !.control = FALSE]),
             Task("t2", <<SourceChat>>, <<200, 300>>, TASK_SETTINGS_DEFAULT) >>
    /\ event = [client |-> 1, text |-> <<"9", "9", "9">>, chat_id |-> SourceChat,
                out |-> FALSE]
    /\ events_left = ListenerEvents - 1
    /\ send_queue = << Job(1, 1, 200, <<"9", "9", "9">>),
                       Job(1, 1, 300, <<"9", "9", "9">>) >>

\* C30: the jobs an outgoing (self-sent) event puts on the queue are the jobs
\* an incoming event with the same text and chat gives on the tasks whose
\* outgoing switch is on; an incoming event gives the jobs of all the tasks,
\* whatever their outgoing switch.
C30_OutgoingOffTaskSkipsOwnMessages ==
    [][LET e == event'
           u == clients[e.client].owner
           list == tasks_cache[u].list
           passing == IF e.out THEN SelectSeq(list, passes_outgoing) ELSE list
           jobs == jobs_of_tasks(u, e.client, passing, e.text, e.chat_id, FALSE)
       IN  event_with_room(Len(jobs)) => send_queue' = send_queue \o jobs
      ]_vars

\* the first task (target 300) has outgoing off and the second (target 200)
\* has it on: the outgoing "999" from chat 100 has put only the job of the
\* second task on the queue
C30_OwnMessageOnlyToSecondTask ==
    /\ tasks_cache[1].list =
          << Task("t4", <<SourceChat>>, <<300>>,
                  [TASK_SETTINGS_DEFAULT EXCEPT !.outgoing = FALSE]),
             DefaultTask >>
    /\ event = [client |-> 1, text |-> <<"9", "9", "9">>, chat_id |-> SourceChat,
                out |-> TRUE]
    /\ events_left = ListenerEvents - 1
    /\ send_queue = << Job(1, 1, 200, <<"9", "9", "9">>) >>

(***************************************************************************)
(* Claim about the task snapshot of a pass, checked in RegistrySpec.       *)
(***************************************************************************)
\* the jobs a pass suspended in put has still to enqueue when it goes on over
\* the task list `list`: the rest of its current task, then the later tasks
pending_jobs(inv, list) ==
    LET n == Len(inv.outputs)
        done == (inv.gi - 1) * n + (inv.oi - 1)
        current == [k \in 1..(Len(inv.targets) * n - done) |->
                       Job(inv.user_id, inv.client,
                           inv.targets[((k + done - 1) \div n) + 1],
                           inv.outputs[((k + done - 1) % n) + 1])]
    IN  current \o jobs_of_tasks(inv.user_id, inv.client,
                                 SubSeq(list, inv.ti + 1, Len(list)),
                                 inv.text, inv.chat_id, inv.out)

\* the task list invocation inv reads after the step
user_tasks_after(inv) ==
    IF inv.live THEN tasks_cache'[inv.user_id].list ELSE inv.tasks

\* C26: while a pass is part-way through an event, a step of another
\* operation (a task added, a setting changed) changes neither the task list
\* the pass goes over nor the jobs it has still to enqueue.
C26_PassKeepsItsSnapshot ==
    [][\A i \in DOMAIN listeners :
          (i \in DOMAIN listeners' /\ listeners'[i] = listeners[i]) =>
              /\ user_tasks_after(listeners[i]) = user_tasks_of(listeners[i])
              /\ pending_jobs(listeners[i], user_tasks_after(listeners[i]))
                    = pending_jobs(listeners[i], user_tasks_of(listeners[i]))
      ]_vars

(***************************************************************************)
(* Claims about the events a listener discards and about the order of its  *)
(* events, checked in ListenerSpec.                                        *)
(***************************************************************************)
\* C31: an event without a text (absent or empty), without a chat identifier,
\* or delivered on an account that has no task, is discarded: the queue, the
\* account's task list and the destination cache are as they were, and no
\* invocation stays suspended.
C31_DiscardedEventHasNoEffect ==
    [][events_left' < events_left
       => LET e == event'
              u == clients[e.client].owner
          IN  (e.text = <<>> \/ e.chat_id = NoChat \/ tasks_cache[u].list = <<>>)
              => /\ send_queue' = send_queue
                 /\ tasks_cache' = tasks_cache
                 /\ target_entity_cache' = target_entity_cache
                 /\ listeners' = listeners
                 /\ dropped' = dropped]_vars

\* an event without text from the source chat was delivered last, to an account
\* whose default task had put the job of the event before it on the queue: the
\* queue still holds that job only
C31_EmptyTextAfterForwardedEvent ==
    /\ tasks_cache[1].list = <<DefaultTask>>
    /\ event.text = <<>>
    /\ event.chat_id = SourceChat
    /\ events_left = 0
    /\ Len(send_queue) = 1

(***************************************************************************)
(* Claims about several accounts, checked in AccountsSpec.                 *)
(***************************************************************************)
\* the step is a completed logout of account a
logout_of(a) == db_logged_in[a] /\ ~db_logged_in'[a]

jobs_of_user(q, b) == SelectSeq(q, LAMBDA job : job.user_id = b)
passes_of_user(ls, b) == SelectSeq(ls, LAMBDA inv : inv.user_id = b)

\* C32: a logout of account A leaves every other account B as it was: B's
\* connection entry, every connection signed in as B, B's stored listener, B's
\* task list and destination cache, B's jobs on the queue and the passes of
\* B's listener that are under way.
C32_LogoutLeavesOtherAccounts ==
    [][\A a \in Users :
          logout_of(a)
          => \A b \in Users \ {a} :
                /\ user_clients'[b] = user_clients[b]
                /\ \A c \in ClientIds : clients[c].owner = b => clients'[c] = clients[c]
                /\ handler_registered'[b] = handler_registered[b]
                /\ tasks_cache'[b] = tasks_cache[b]
                /\ target_entity_cache'[b] = target_entity_cache[b]
                /\ jobs_of_user(send_queue', b) = jobs_of_user(send_queue, b)
                /\ passes_of_user(listeners', b) = passes_of_user(listeners, b)
                /\ \A i \in DOMAIN listeners' :
                      listeners'[i].user_id = b => user_tasks_of(listeners[i])' = user_tasks_of(listeners[i])
      ]_vars

\* account 1 has logged out while account 2 had a job on the queue and a pass
\* suspended on the full queue: account 2 still has its connection with the
\* listener attached, its task, and both the job and the pass
C32_SecondAccountRunsAfterFirstLoggedOut ==
    /\ ~db_logged_in[1] /\ user_clients[1] = NoClient
    /\ user_clients[2] = 2 /\ clients[2].connected /\ clients[2].handler
    /\ handler_registered[2] = 2
    /\ tasks_cache[2] = [has |-> TRUE, list |-> <<DefaultTask>>]
    /\ jobs_of_user(send_queue, 2) # <<>>
    /\ passes_of_user(listeners, 2) # <<>>

(***************************************************************************)
(* Claim about the order of the events of one listener, checked in         *)
(* PipelineSpec.                                                           *)
(***************************************************************************)
\* the jobs the step has put at the end of the queue
jobs_enqueued_by_step ==
    IF Len(send_queue') > Len(send_queue)
    THEN SubSeq(send_queue', Len(send_queue) + 1, Len(send_queue'))
    ELSE <<>>

\* C33: while a pass of a listener still has a job to enqueue (it is suspended
\* in its enqueue), no event delivered later on the same connection gets a job
\* of its own onto the queue.
C33_JobsEnqueuedInDeliveryOrder ==
    [][events_left' < events_left
       => \A i \in DOMAIN listeners :
             \A k \in DOMAIN jobs_enqueued_by_step :
                jobs_enqueued_by_step[k].client # listeners[i].client]_vars

(***************************************************************************)
(* Claims about the start-up, checked in BootSpec.                         *)
(***************************************************************************)
\* C34: once start_send_workers has been called, however often, the workers
\* are marked started, exactly SEND_WORKER_COUNT workers have been spawned and
\* the queue exists with its capacity; a call on a started pool spawns no
\* worker and leaves the queue object and what it holds as they are.
C34_PoolStartedOnce ==
    /\ [](start_calls > 0
          => /\ send_workers_started
             /\ Len(worker_tasks) = SEND_WORKER_COUNT
             /\ send_queue_set
             /\ send_queue_maxsize = SEND_QUEUE_MAXSIZE)
    /\ [][(start_calls' > start_calls /\ start_calls > 0)
          => /\ worker_tasks' = worker_tasks
             /\ send_queue_set' = send_queue_set
             /\ send_queue_maxsize' = send_queue_maxsize
             /\ send_queue' = send_queue]_vars

\* start_send_workers has been called at least twice and the pool runs: there
\* are SEND_WORKER_COUNT workers, one of them is sending a job and another job
\* is on the queue
C34_SecondStartWithBusyPool ==
    /\ start_calls >= 2
    /\ phase = "polling"
    /\ Len(worker_tasks) = SEND_WORKER_COUNT
    /\ \E w \in Workers : worker_tasks[w].pc = "send"
    /\ send_queue # <<>>

(***************************************************************************)
(* Claim about the progress of the pipeline, checked in PipelineFairSpec.  *)
(***************************************************************************)
\* C35: whenever the queue holds jobs, a worker eventually dequeues one: the
\* queue does not keep its length for ever (so it is empty in the end, once
\* no event arrives any more), and the workers never all wait to put a job
\* back into a full queue.
C35_QueuedJobEventuallyDequeued ==
    \A n \in 1..SEND_QUEUE_MAXSIZE :
        (Len(send_queue) = n) ~> (Len(send_queue) < n)

(***************************************************************************)
(* Claim about the jobs of a logged-out account, checked in Spec.          *)
(***************************************************************************)
\* C36: while an account is logged out (its logout has completed and it has
\* not logged in again), no listener puts a job of that account on the queue
\* (a worker that puts a job back after a rate limit adds no new job).
C36_NoNewJobAfterLogout ==
    [][\A u \in Users :
          (~db_logged_in[u] /\ ~db_logged_in'[u] /\ worker_tasks' = worker_tasks)
          => \A k \in DOMAIN jobs_enqueued_by_step :
                jobs_enqueued_by_step[k].user_id # u]_vars

(***************************************************************************)
(* Claims about the connections of the accounts, checked in LoginSpec.     *)
(***************************************************************************)
\* C37: the accounts with a connection entry are never more than
\* MAX_CONCURRENT_USERS.
C37_ConnectionsWithinLimit == Cardinality(LoggedIn) <= MAX_CONCURRENT_USERS

(***************************************************************************)
(* Claim about listeners and connection entries, checked in Spec.          *)
(***************************************************************************)
\* account u has a listener: a handler is stored for it, or a handler is
\* attached to a connected client that was signed in as u
has_listener(u) ==
    \/ handler_registered[u] # NoClient
    \/ \E c \in ClientIds : clients[c].owner = u /\ clients[c].handler /\ clients[c].connected

\* C38: every account that has a listener has a connection entry.
C38_ListenerImpliesConnection ==
    \A u \in Users : has_listener(u) => user_clients[u] # NoClient

\* C39: the queue exists whenever an account has a listener, so no event loses
\* a job to a queue that is not there yet: an event with a text and a chat
\* that has jobs finds the queue, and when the queue has room for them all of
\* them are appended.
C39_QueueMadeBeforeListeners ==
    /\ [](\A u \in Users : has_listener(u) => send_queue_set)
    /\ [][(events_left' < events_left /\ event'.text # <<>> /\ event'.chat_id # NoChat)
          => LET e == event'
                 u == clients[e.client].owner
                 expected == jobs_of_tasks(u, e.client, tasks_cache[u].list,
                                           e.text, e.chat_id, e.out)
             IN  /\ expected # <<>> => send_queue_set
                 /\ (send_queue_set /\ Len(send_queue) + Len(expected) <= send_queue_maxsize)
                       => send_queue' = send_queue \o expected]_vars

\* the session of user 1 has just been restored and start-up is not over yet:
\* "9" from chat 100 was delivered on the new connection and its job is on the
\* queue
C39_EventForwardedDuringRestore ==
    /\ phase = "restore"
    /\ event = [client |-> 1, text |-> <<"9">>, chat_id |-> SourceChat, out |-> FALSE]
    /\ send_queue = <<Job(1, 1, 200, <<"9">>)>>

====
